---------------------------- MODULE Spec2Model ----------------------------
(***************************************************************************)
(* Model of the State Store's capital accounting                           *)
(* (src/data/persistence/state_manager.py, class StateManager), of the     *)
(* TTL cache (src/data/cache/cache_manager.py, class CacheManager), of the *)
(* token manager (src/auth/token_manager.py, class TokenManager) and of    *)
(* get_historical_data (src/data/services/historical_data_service.py).     *)
(*                                                                         *)
(* The store is an SQLite file.  Every public method opens its own         *)
(* connection (_get_connection), runs its statements and closes the        *)
(* connection.  With Python's sqlite3 module in its default transaction    *)
(* mode a SELECT runs outside any transaction, the first INSERT or UPDATE  *)
(* of a connection opens one (taking the file's write lock), commit()      *)
(* publishes it and close() without commit() discards it.  The committed   *)
(* tables are cap / ledger; the open transaction's view is wcap / wledger  *)
(* and belongs to the thread named by lock.                                *)
(***************************************************************************)
EXTENDS Integers, Sequences, FiniteSets, TLC

\* ------------------------------------------------------------------ bounds
MaxAmount  == 2      \* one caller: amounts range over -MaxAmount..MaxAmount
MaxCapital == 3      \* calls that would take current_capital above this are not explored
MaxLedger  == 2      \* one caller: no call is started once the ledger has this many rows
MaxLedgerConc == 3   \* several callers: the same, counting the calls in progress as rows
MaxClock   == 1      \* datetime.now() ranges over 0..MaxClock
MaxTime    == 3      \* cache: datetime.now() ranges over 0..MaxTime
MaxCalls   == 3      \* cache: no call is started after this many calls
CleanupInterval == 1 \* cache: the cleanup_interval the instance was built with
MaxAudit   == 2      \* no log_order_action is started with this many audit rows

Amounts == (0 - MaxAmount)..MaxAmount

\* The amounts the concurrent callers pass: a loss, nothing and a gain.
ConcAmounts == {0 - 1, 0, 1}

\* ------------------------------------------------------- program constants
\* The values accepted by the CHECK constraint of capital_adjustments.
AdjustmentTypes ==
    {"DEPOSIT", "WITHDRAWAL", "MANUAL_ADJUSTMENT",
     "TRADE_PROFIT", "TRADE_LOSS", "INITIAL_SETUP"}

\* What a caller may pass as adjustment_type: the six values, some other
\* string, or None (stored as SQL NULL).
NullType == "NULL"
TypeArgs == AdjustmentTypes \cup {"BONUS", NullType}

\* The types the concurrent callers pass: one whose signed amount adds or
\* subtracts, and one that the CHECK constraint rejects.
ConcTypeArgs == {"MANUAL_ADJUSTMENT", "BONUS"}

\* The threads that call into the store.  Seq is the single caller of the
\* sequential specification.
Threads    == {"t1", "t2"}
SeqThreads == {"t1"}

NoRow  == [exists |-> FALSE]
NoLock == "none"
NoArg  == 0 - 99

VARIABLES
    cap,       \* committed capital_state row with id = 1, or NoRow
    ledger,    \* committed capital_adjustments rows, in id order
    lock,      \* the thread whose connection holds the write transaction
    wcap,      \* capital_state as seen inside the open transaction
    wledger,   \* capital_adjustments as seen inside the open transaction
    clock,     \* the value datetime.now() returns
    pc,        \* per thread: the statement it executes next
    args,      \* per thread: locals of the running call
    ret,       \* the last return of a public method: its caller and value
    log        \* the last message written to the module's logger

\* The cache: one CacheManager instance on its own SQLite file.
VARIABLES
    cache,        \* table cache: the row stored under each key, or NoEntry
    cache_stats,  \* table cache_stats: the row with id = 1
    last_cleanup, \* self._last_cleanup
    rlock,        \* the thread that holds self._lock
    cpc,          \* the statement the holder of self._lock executes next
    cargs,        \* locals of the running set call
    cret,         \* the last return of a public cache method
    calls,        \* the number of public cache calls started so far
    written,      \* per key: what the last successful set of the key was
                  \* given and when, until a delete or clear removes the key
    last_sweep    \* when the set call that ran this instance's last sweep
                  \* read the time (the construction time before any sweep)

\* get_or_set: each thread's call, which takes self._lock only inside the get
\* and the set it makes.
VARIABLES
    gpc,          \* per thread: the statement of get_or_set it executes next
    gargs,        \* per thread: key, factory, ttl_seconds and value of the call
    gret,         \* the last return of get_or_set: its caller, key and value
    invoked       \* per thread: how often its last call invoked the factory

\* The state store: the other tables of the StateManager's file and the
\* calls that use them.
VARIABLES
    app_state,    \* table app_state: the row stored under each key, or NoEntry
    sessions,     \* table session_state: the row of each date, or NoEntry
    audit,        \* table order_audit_log: its rows, in id order
    handles,      \* the number of open sqlite3 connections to the file
    spc,          \* per thread: the statement of its call it executes next
    sargs,        \* per thread: locals of the running call
    sret,         \* the last outcome of a public call: returned or raised
    swritten      \* per key: the value of the last set and the times of the
                  \* first and the last set since the key was last absent

\* The token manager: the token_state table of the StateManager's file and
\* the TokenManager instances built over it.
VARIABLES
    token_state,  \* table token_state: the row with id = 1, or NoRow
    tm,           \* per TokenManager: self._token_cache, self._expiry_cache
    tret          \* the last return of a TokenManager method

\* The historical data service: one call of get_historical_data at a time.
VARIABLES
    hpc,          \* the statement of get_historical_data it executes next
    hargs,        \* locals of the running call
    hret          \* the last return of get_historical_data

stateVars == <<app_state, sessions, audit, spc, sargs, sret, swritten>>

tokenVars == <<token_state, tm, tret>>

svcVars == <<hpc, hargs, hret>>

capitalVars == <<cap, ledger, lock, wcap, wledger, pc, args, ret, log,
                 handles, stateVars, tokenVars>>

cacheVars == <<cache, cache_stats, last_cleanup, rlock, cpc, cargs, cret,
               calls, written, last_sweep>>

gosVars == <<gpc, gargs, gret, invoked>>

vars == <<cap, ledger, lock, wcap, wledger, clock, pc, args, ret, log,
          cache, cache_stats, last_cleanup, rlock, cpc, cargs, cret,
          calls, written, last_sweep, gpc, gargs, gret, invoked,
          app_state, sessions, audit, handles, spc, sargs, sret, swritten,
          token_state, tm, tret, hpc, hargs, hret>>

NoArgs == [amount |-> NoArg, type |-> NullType, now |-> 0,
           previous_capital |-> NoArg, new_capital |-> NoArg]

Abs(x) == IF x < 0 THEN 0 - x ELSE x

Last(s) == s[Len(s)]

IsPrefix(s, t) ==
    /\ Len(s) <= Len(t)
    /\ \A i \in 1..Len(s) : s[i] = t[i]

\* ---------------------------------------------------------------- schema
\* CHECK(adjustment_type IN (...)): a CHECK constraint rejects a row only
\* when the expression is false; for NULL it is NULL, and the row passes.
CheckAdjustmentType(type) ==
    type = NullType \/ type \in AdjustmentTypes

\* ----------------------------------------------------------- pure helpers
\* adjust_capital, "Calculate new capital based on type".
NewCapitalSigned(previous_capital, amount, type) ==
    IF type \in {"DEPOSIT", "TRADE_PROFIT"}
    THEN previous_capital + amount
    ELSE IF type \in {"WITHDRAWAL", "TRADE_LOSS"}
         THEN previous_capital - amount
         ELSE previous_capital + amount

NewCapital(previous_capital, amount, type) ==
    IF type \in {"DEPOSIT", "TRADE_PROFIT"}
    THEN previous_capital + Abs(amount)
    ELSE IF type \in {"WITHDRAWAL", "TRADE_LOSS"}
         THEN previous_capital - Abs(amount)
         ELSE previous_capital + amount

\* adjust_capital, "if new_capital < 0".
WouldBeNegativeNever(new_capital) == FALSE

WouldBeNegative(new_capital) == new_capital < 0

\* The row initialize_capital inserts into capital_state:
\* VALUES (1, ?, ?, 0, ?, ?) with (initial, initial, initial, now).
InitialCapitalRowNoAvailable(initial_capital, now) ==
    [exists            |-> TRUE,
     current_capital   |-> initial_capital,
     initial_capital   |-> initial_capital,
     allocated_capital |-> 0,
     available_capital |-> 0,
     last_updated      |-> now]

InitialCapitalRow(initial_capital, now) ==
    [exists            |-> TRUE,
     current_capital   |-> initial_capital,
     initial_capital   |-> initial_capital,
     allocated_capital |-> 0,
     available_capital |-> initial_capital,
     last_updated      |-> now]

\* The row initialize_capital inserts into capital_adjustments:
\* VALUES (?, 'INITIAL_SETUP', ?, 0, ?, ?).
InitialSetupRow(initial_capital, now) ==
    [timestamp        |-> now,
     adjustment_type  |-> "INITIAL_SETUP",
     amount           |-> initial_capital,
     previous_capital |-> 0,
     new_capital      |-> initial_capital]

\* The UPDATE of adjust_capital.  SQL evaluates the right-hand sides of SET
\* against the row as it was before the statement, so available_capital is
\* computed from the old current_capital.
UpdatedCapitalRow(row, new_capital, now) ==
    [row EXCEPT !.current_capital   = new_capital,
                !.available_capital = row.current_capital - row.allocated_capital,
                !.last_updated      = now]

\* The row adjust_capital inserts into capital_adjustments.
AdjustmentRowStale(now, type, amount, previous_capital, new_capital) ==
    [timestamp        |-> now,
     adjustment_type  |-> type,
     amount           |-> amount,
     previous_capital |-> previous_capital - amount,
     new_capital      |-> new_capital]

AdjustmentRow(now, type, amount, previous_capital, new_capital) ==
    [timestamp        |-> now,
     adjustment_type  |-> type,
     amount           |-> amount,
     previous_capital |-> previous_capital,
     new_capital      |-> new_capital]

\* INSERT INTO capital_adjustments: a new row with the next id.
InsertLedgerOverwrite(rows, row) ==
    IF rows = <<>> THEN <<row>> ELSE [rows EXCEPT ![Len(rows)] = row]

InsertLedger(rows, row) == Append(rows, row)

\* --------------------------------------------------------------- returns
\* A return from a public method: finally: conn.close().
Return(t, value, message) ==
    /\ pc'   = [pc   EXCEPT ![t] = "idle"]
    /\ args' = [args EXCEPT ![t] = NoArgs]
    /\ ret'  = [caller |-> t, value |-> value]
    /\ log'  = message
    /\ handles' = handles - 1

\* conn.commit(): the transaction's view becomes the committed tables.
Commit ==
    /\ cap'     = wcap
    /\ ledger'  = wledger
    /\ wcap'    = wcap
    /\ wledger' = wledger
    /\ lock'    = NoLock

\* except sqlite3.Error ... finally conn.close(): closing a connection
\* whose transaction was not committed rolls the transaction back.
CloseCommits ==
    /\ cap'     = wcap
    /\ ledger'  = wledger
    /\ wcap'    = wcap
    /\ wledger' = wledger
    /\ lock'    = NoLock

CloseWithoutCommit ==
    /\ cap'     = cap
    /\ ledger'  = ledger
    /\ wcap'    = cap
    /\ wledger' = ledger
    /\ lock'    = NoLock

\* ------------------------------------------------------------ cache schema
\* The keys the callers pass.
CacheKeyArgs == {"k1", "k2"}

\* def _generate_key(self, key): keys longer than 200 characters are stored
\* under their MD5 digest.
KeyHashThreshold == 200

GenerateKey(key) ==
    IF Len(key) > KeyHashThreshold THEN "md5:" \o key ELSE key

\* A key of 201 characters.
Fifty == "kkkkkkkkkkkkkkkkkkkkkkkkkkkkkkkkkkkkkkkkkkkkkkkkkk"

LongKey == Fifty \o Fifty \o Fifty \o Fifty \o "k"

AllKeyArgs == CacheKeyArgs \cup {LongKey}

StoredKeys == {GenerateKey(key) : key \in AllKeyArgs}

\* Python values: None, booleans, integers, a dict of JSON scalars (named
\* by its content) and a list that contains itself.
PyNone == [py |-> "NoneType"]
PyBool(b) == [py |-> "bool", val |-> b]
PyInt(n) == [py |-> "int", val |-> n]
PyDict(content) == [py |-> "dict", val |-> content]
Circular == [py |-> "list", val |-> "circular"]

\* More Python values: strings, lists and tuples of scalars, dicts given
\* by their (key, value) pairs, and a datetime (named by what str() prints).
PyStr(s) == [py |-> "str", val |-> s]
PyList(items) == [py |-> "list", items |-> items]
PyTuple(items) == [py |-> "tuple", items |-> items]
PyMapping(items) == [py |-> "dict", items |-> items]
PyDatetime(printed) == [py |-> "datetime", val |-> printed]

\* The values the callers pass to set: two payloads and one that cannot be
\* serialized.
CacheValueArgs == {PyDict("v1"), PyDict("v2"), Circular}

\* The ttl_seconds the callers pass: expired at once, and two ticks.
TtlArgs == {0, 2}

\* json.dumps(value, default=str): the JSON text, or the ValueError that a
\* circular reference raises.
DumpsError == [json |-> "ValueError"]

\* The JSON text of a scalar; default=str turns a value json does not know
\* into the string str() prints.
DumpsScalar(value) ==
    CASE value.py = "NoneType" -> [json |-> "null"]
      [] value.py = "bool"     -> [json |-> "boolean", val |-> value.val]
      [] value.py = "int"      -> [json |-> "number", val |-> value.val]
      [] value.py = "str"      -> [json |-> "string", val |-> value.val]
      [] value.py = "datetime" -> [json |-> "string", val |-> value.val]

\* The decimal digits json.dumps writes for an int used as a dict key.
IntText(n) == <<"0", "1", "2", "3">>[n + 1]

\* A dict key as json.dumps writes it: str keys as they are, int, bool and
\* None keys as text.
KeyText(key) ==
    CASE key.py = "str"      -> key.val
      [] key.py = "int"      -> IntText(key.val)
      [] key.py = "bool"     -> IF key.val THEN "true" ELSE "false"
      [] key.py = "NoneType" -> "null"

Dumps(value) ==
    CASE value.py \in {"NoneType", "bool", "int", "str", "datetime"} ->
            DumpsScalar(value)
      [] value.py \in {"list", "tuple"} /\ "items" \in DOMAIN value ->
            [json |-> "array",
             items |-> [i \in DOMAIN value.items |->
                          DumpsScalar(value.items[i])]]
      [] value.py = "list" /\ "items" \notin DOMAIN value -> DumpsError
      [] value.py = "dict" /\ "items" \in DOMAIN value ->
            IF \E item \in value.items :
                  item[1].py \notin {"str", "int", "bool", "NoneType"}
            THEN DumpsError
            ELSE [json |-> "object",
                  members |-> {<<KeyText(item[1]), DumpsScalar(item[2])>> :
                                  item \in value.items}]
      [] value.py = "dict" /\ "items" \notin DOMAIN value ->
            [json |-> "object", body |-> value.val]

LoadsScalar(text) ==
    CASE text.json = "null"    -> PyNone
      [] text.json = "boolean" -> PyBool(text.val)
      [] text.json = "number"  -> PyInt(text.val)
      [] text.json = "string"  -> PyStr(text.val)

\* json.loads(text): arrays become lists, objects dicts with str keys.
Loads(text) ==
    CASE text.json \in {"null", "boolean", "number", "string"} ->
            LoadsScalar(text)
      [] text.json = "array" ->
            PyList([i \in DOMAIN text.items |-> LoadsScalar(text.items[i])])
      [] text.json = "object" /\ "members" \in DOMAIN text ->
            PyMapping({<<PyStr(member[1]), LoadsScalar(member[2])>> :
                          member \in text.members})
      [] text.json = "object" /\ "members" \notin DOMAIN text ->
            PyDict(text.body)

\* Values of every kind json knows, and some it does not: a tuple, a dict
\* with an int key, a datetime, a dict with a tuple key.
FidelityValueArgs ==
    {PyNone, PyBool(TRUE), PyInt(1), PyStr("a"),
     PyList(<<PyInt(1), PyInt(2)>>),
     PyTuple(<<PyInt(1), PyInt(2)>>),
     PyMapping({<<PyStr("a"), PyInt(1)>>}),
     PyMapping({<<PyInt(1), PyStr("a")>>}),
     PyDatetime("2026-01-01 00:00:00"),
     PyMapping({<<PyTuple(<<PyInt(1), PyInt(2)>>), PyInt(3)>>})}

FidelityTtlArgs == {2}

NoEntry  == [present |-> FALSE]
NullTime == 0 - 1

ExpiresAtLate(now, ttl_seconds) == now + ttl_seconds + 1

\* expires_at = now + timedelta(seconds=ttl_seconds)
ExpiresAt(now, ttl_seconds) == now + ttl_seconds

\* The row written by INSERT OR REPLACE INTO cache ... VALUES (?, ?, ?, ?, 0, NULL).
CacheRow(value_json, now, expires_at) ==
    [present |-> TRUE, value |-> value_json, created_at |-> now,
     expires_at |-> expires_at, access_count |-> 0,
     last_accessed |-> NullTime]

IsLiveInclusive(row, now) == row.present /\ row.expires_at >= now

\* WHERE key = ? AND expires_at > ?   (get)
IsLive(row, now) == row.present /\ row.expires_at > now

IsExpiredStrict(row, now) == row.present /\ row.expires_at < now

\* WHERE expires_at <= ?   (_cleanup_expired, get_stats)
IsExpired(row, now) == row.present /\ row.expires_at <= now

ExpiredKeys(rows, now) == {k \in StoredKeys : IsExpired(rows[k], now)}

PresentKeys(rows) == {k \in StoredKeys : rows[k].present}

\* INSERT OR IGNORE INTO cache_stats (id, last_updated) VALUES (1, ?): the
\* counters take their DEFAULT 0.
InitialStats(now) ==
    [total_hits |-> 0, total_misses |-> 0, total_sets |-> 0,
     total_evictions |-> 0, last_updated |-> now]

\* UPDATE cache_stats SET total_hits = total_hits + 1, last_updated = ?
CountHit(stats, now) ==
    [stats EXCEPT !.total_hits = @ + 1, !.last_updated = now]

CountMissAsHit(stats, now) ==
    [stats EXCEPT !.total_hits = @ + 1, !.last_updated = now]

\* UPDATE cache_stats SET total_misses = total_misses + 1, last_updated = ?
CountMiss(stats, now) ==
    [stats EXCEPT !.total_misses = @ + 1, !.last_updated = now]

CountSetNothing(stats, now) == [stats EXCEPT !.last_updated = now]

\* UPDATE cache_stats SET total_sets = total_sets + 1, last_updated = ?
CountSet(stats, now) ==
    [stats EXCEPT !.total_sets = @ + 1, !.last_updated = now]

CountEvictionsByOne(stats, count, now) ==
    [stats EXCEPT !.total_evictions = @ + 1, !.last_updated = now]

\* UPDATE cache_stats SET total_evictions = total_evictions + ?, last_updated = ?
CountEvictions(stats, count, now) ==
    [stats EXCEPT !.total_evictions = @ + count, !.last_updated = now]

InsertOrIgnore(rows, cache_key, row) ==
    IF rows[cache_key].present THEN rows ELSE [rows EXCEPT ![cache_key] = row]

\* INSERT OR REPLACE INTO cache: the row takes the place of the key's row.
InsertOrReplace(rows, cache_key, row) ==
    [rows EXCEPT ![cache_key] = row]

TouchRenews(rows, cache_key, now) ==
    [rows EXCEPT ![cache_key].access_count = @ + 1,
                 ![cache_key].last_accessed = now,
                 ![cache_key].expires_at = @ + 1]

\* UPDATE cache SET access_count = access_count + 1, last_accessed = ?
Touch(rows, cache_key, now) ==
    [rows EXCEPT ![cache_key].access_count = @ + 1,
                 ![cache_key].last_accessed = now]

NoCacheArgs == [key |-> "", value |-> PyNone, ttl_seconds |-> 0, now |-> 0]

NoReturn == [op |-> "none", key |-> "", value |-> PyNone]

CacheReturn(op, key, value) == [op |-> op, key |-> key, value |-> value]

\* get_or_set(key, factory, ttl_seconds): a factory is a callable that
\* returns a value, returns None or raises.
FactoryReturns(value) == [outcome |-> "returns", value |-> value]

FactoryRaises == [outcome |-> "raises", value |-> PyNone]

FactoryArgs == {FactoryReturns(PyDict("v2")), FactoryReturns(PyNone),
                FactoryReturns(Circular), FactoryRaises}

NoGetOrSetArgs == [key |-> "", factory |-> FactoryRaises,
                   ttl_seconds |-> 0, value |-> PyNone]

NoGetOrSetReturn == [caller |-> "none", key |-> "", value |-> PyNone]

GetOrSetReturn(t, key, value) == [caller |-> t, key |-> key, value |-> value]

\* ------------------------------------------------------ state store schema
\* The variables of the capital methods.
capVars == <<cap, ledger, lock, wcap, wledger, pc, args, ret, log>>

DateArgs == {"d1", "d2"}

StateKeyArgs == {"s1", "s2"}

StateValueArgs == {PyDict("v1"), PyDict("v2"), PyNone}

DefaultArgs == {PyStr("dflt")}

\* A row of app_state: key, value, type, created_at, updated_at.
StateRow(value_json, value_type, created_at, updated_at) ==
    [present |-> TRUE, value |-> value_json, type |-> value_type,
     created_at |-> created_at, updated_at |-> updated_at]

StateReplace(rows, key, value_json, value_type, now) ==
    [rows EXCEPT ![key] = StateRow(value_json, value_type, now, now)]

\* INSERT OR REPLACE INTO app_state ... VALUES (?, ?, ?,
\*   COALESCE((SELECT created_at FROM app_state WHERE key = ?), ?), ?)
StateUpsert(rows, key, value_json, value_type, now) ==
    [rows EXCEPT ![key] =
        StateRow(value_json, value_type,
                 IF rows[key].present THEN rows[key].created_at ELSE now,
                 now)]

\* The arguments of log_order_action: action and instrument are NOT NULL
\* columns; details is a dict, or None.
ActionArgs == {PyStr("PLACE"), PyNone}

InstrumentArgs == {PyStr("NIFTY"), PyNone}

DetailsArgs == {PyNone, PyMapping({}), PyDict("v1"),
                PyMapping({<<PyStr("at"), PyDatetime("2026-01-01 00:00:00")>>}),
                Circular}

DumpsTypeError == [json |-> "TypeError"]

\* json.dumps(details), without default=str: a value that is not a JSON
\* type raises TypeError.
DumpsStrict(value) ==
    CASE value.py = "datetime" -> DumpsTypeError
      [] value.py = "dict" /\ "items" \in DOMAIN value ->
            IF \E item \in value.items :
                  item[2].py \notin {"NoneType", "bool", "int", "str"}
            THEN DumpsTypeError
            ELSE Dumps(value)
      [] OTHER -> Dumps(value)

\* `if details`: None and the empty dict are false.
Truthy(value) ==
    CASE value.py = "NoneType" -> FALSE
      [] value.py = "dict" /\ "items" \in DOMAIN value -> value.items # {}
      [] OTHER -> TRUE

SqlNull == [json |-> "NULL"]

\* A row of order_audit_log; timestamp is DEFAULT CURRENT_TIMESTAMP.
AuditRow(now, action, instrument, details_json) ==
    [timestamp |-> now, action |-> action, instrument |-> instrument,
     details |-> details_json]

NoStateArgs == [method |-> "none", key |-> "", value |-> PyNone,
                default |-> PyNone, action |-> PyNone, instrument |-> PyNone,
                details |-> PyNone, date |-> "", starting_capital |-> 0,
                realized_pnl |-> 0, unrealized_pnl |-> 0, limit |-> 0,
                adjustment_type |-> NullType]

\* ------------------------------------------------------------ token schema
MaxTokenLen == 3     \* tokens have at most this many characters

\* The TokenManager instances built over the one StateManager.
Managers == {"m1", "m2"}

\* self._token_cache = None; self._expiry_cache = None
NoTokenCache == [token_cache |-> PyNone, expiry_cache |-> PyNone]

NoTokenReturn == [manager |-> "none", method |-> "none",
                  outcome |-> "returned", value |-> PyNone]

\* ---------------------------------------------------------- service schema
NoServiceArgs == [key |-> "", use_cache |-> FALSE, rows |-> PyNone]

NoServiceReturn == [key |-> "", path |-> "none", value |-> PyNone]

NoStateReturn == [caller |-> "none", method |-> "none",
                  outcome |-> "returned", value |-> PyNone]

Init ==
    /\ cap     = NoRow
    /\ ledger  = <<>>
    /\ lock    = NoLock
    /\ wcap    = NoRow
    /\ wledger = <<>>
    /\ clock   = 0
    /\ pc      = [t \in Threads |-> "idle"]
    /\ args    = [t \in Threads |-> NoArgs]
    /\ ret     = [caller |-> "none", value |-> FALSE]
    /\ log     = "none"
    /\ cache        = [k \in StoredKeys |-> NoEntry]
    /\ cache_stats  = InitialStats(0)
    /\ last_cleanup = 0
    /\ rlock        = NoLock
    /\ cpc          = "idle"
    /\ cargs        = NoCacheArgs
    /\ cret         = NoReturn
    /\ calls        = 0
    /\ written      = [k \in StoredKeys |-> NoEntry]
    /\ last_sweep   = 0
    /\ gpc          = [t \in Threads |-> "idle"]
    /\ gargs        = [t \in Threads |-> NoGetOrSetArgs]
    /\ gret         = NoGetOrSetReturn
    /\ invoked      = [t \in Threads |-> 0]
    /\ app_state    = [k \in StateKeyArgs |-> NoEntry]
    /\ sessions     = [d \in DateArgs |-> NoEntry]
    /\ audit        = <<>>
    /\ handles      = 0
    /\ spc          = [t \in Threads |-> "idle"]
    /\ sargs        = [t \in Threads |-> NoStateArgs]
    /\ sret         = NoStateReturn
    /\ swritten     = [k \in StateKeyArgs |-> NoEntry]
    /\ token_state  = NoRow
    /\ tm           = [i \in Managers |-> NoTokenCache]
    /\ tret         = NoTokenReturn
    /\ hpc          = "idle"
    /\ hargs        = NoServiceArgs
    /\ hret         = NoServiceReturn

\* datetime.now() advances between statements.
Tick ==
    /\ clock < MaxClock
    /\ UNCHANGED <<cacheVars, gosVars, stateVars, tokenVars, svcVars>>
    /\ clock' = clock + 1
    /\ UNCHANGED <<cap, ledger, lock, wcap, wledger, pc, args, ret, log,
                   handles>>


\* ------------------------------------------------------ initialize_capital
\* def initialize_capital(self, initial_capital, reason): conn, cursor, now.
InitializeCall(t, amounts) ==
    /\ pc[t] = "idle"
    /\ UNCHANGED <<cacheVars, gosVars, stateVars, tokenVars, svcVars>>
    /\ \E initial_capital \in amounts :
          args' = [args EXCEPT ![t] =
                      [NoArgs EXCEPT !.amount = initial_capital, !.now = clock]]
    /\ pc' = [pc EXCEPT ![t] = "init_select"]
    /\ UNCHANGED <<cap, ledger, lock, wcap, wledger, clock, ret, log>>
    /\ handles' = handles + 1

\* A variant that upserts the singleton row without looking for it first
\* (INSERT OR REPLACE, as StateManager.set and store_token do).
InitializeSelectUpsert(t) ==
    /\ pc[t] = "init_select"
    /\ UNCHANGED <<cacheVars, gosVars, stateVars, tokenVars, svcVars>>
    /\ lock = NoLock
    /\ lock' = t
    /\ wcap' = InitialCapitalRow(args[t].amount, args[t].now)
    /\ pc' = [pc EXCEPT ![t] = "init_insert_ledger"]
    /\ UNCHANGED <<cap, ledger, wledger, clock, args, ret, log, handles>>

\* SELECT id FROM capital_state WHERE id = 1; "Check if already initialized".
\* The SELECT runs outside a transaction and reads the committed table.
InitializeSelect(t) ==
    /\ pc[t] = "init_select"
    /\ UNCHANGED <<cacheVars, gosVars, stateVars, tokenVars, svcVars>>
    /\ IF cap.exists
       THEN /\ Return(t, FALSE, "already_initialized")
            /\ UNCHANGED <<cap, ledger, lock, wcap, wledger, clock>>
       ELSE /\ pc' = [pc EXCEPT ![t] = "init_insert_state"]
            /\ UNCHANGED <<cap, ledger, lock, wcap, wledger, clock,
                           args, ret, log, handles>>

InitializeInsertStateReplace(t) ==
    /\ pc[t] = "init_insert_state"
    /\ UNCHANGED <<cacheVars, gosVars, stateVars, tokenVars, svcVars>>
    /\ lock = NoLock
    /\ lock' = t
    /\ wcap' = InitialCapitalRow(args[t].amount, args[t].now)
    /\ pc' = [pc EXCEPT ![t] = "init_insert_ledger"]
    /\ UNCHANGED <<cap, ledger, wledger, clock, args, ret, log, handles>>

\* INSERT INTO capital_state ... VALUES (1, ...).  The statement opens the
\* write transaction; id is the PRIMARY KEY, so a row committed by another
\* connection since the SELECT makes it fail with sqlite3.IntegrityError.
InitializeInsertState(t) ==
    /\ pc[t] = "init_insert_state"
    /\ UNCHANGED <<cacheVars, gosVars, stateVars, tokenVars, svcVars>>
    /\ lock = NoLock
    /\ IF cap.exists
       THEN /\ CloseWithoutCommit
            /\ Return(t, FALSE, "initialize_error_unique")
            /\ UNCHANGED clock
       ELSE /\ lock' = t
            /\ wcap' = InitialCapitalRow(args[t].amount, args[t].now)
            /\ pc' = [pc EXCEPT ![t] = "init_insert_ledger"]
            /\ UNCHANGED <<cap, ledger, wledger, clock, args, ret, log, handles>>

\* The same statement when another connection holds the write lock for the
\* whole busy timeout (timeout=10.0): sqlite3.OperationalError.
InitializeInsertStateLocked(t) ==
    /\ pc[t] = "init_insert_state"
    /\ UNCHANGED <<cacheVars, gosVars, stateVars, tokenVars, svcVars>>
    /\ lock \notin {NoLock, t}
    /\ Return(t, FALSE, "initialize_error_locked")
    /\ UNCHANGED <<cap, ledger, lock, wcap, wledger, clock>>

\* INSERT INTO capital_adjustments ... 'INITIAL_SETUP'; "Record in history".
InitializeInsertLedger(t) ==
    /\ pc[t] = "init_insert_ledger"
    /\ UNCHANGED <<cacheVars, gosVars, stateVars, tokenVars, svcVars>>
    /\ lock = t
    /\ wledger' = InsertLedger(wledger,
                               InitialSetupRow(args[t].amount, args[t].now))
    /\ pc' = [pc EXCEPT ![t] = "init_commit"]
    /\ UNCHANGED <<cap, ledger, lock, wcap, clock, args, ret, log, handles>>

\* conn.commit(); return True.
InitializeCommit(t) ==
    /\ pc[t] = "init_commit"
    /\ UNCHANGED <<cacheVars, gosVars, stateVars, tokenVars, svcVars>>
    /\ lock = t
    /\ Commit
    /\ Return(t, TRUE, "initialized")
    /\ UNCHANGED clock

\* ---------------------------------------------------------- adjust_capital
\* def adjust_capital(self, amount, adjustment_type, ...): conn, cursor, now.
AdjustCall(t, amounts, types) ==
    /\ pc[t] = "idle"
    /\ UNCHANGED <<cacheVars, gosVars, stateVars, tokenVars, svcVars>>
    /\ \E amount \in amounts, type \in types :
          /\ cap.exists =>
               NewCapital(cap.current_capital, amount, type) <= MaxCapital
          /\ args' = [args EXCEPT ![t] =
                         [NoArgs EXCEPT !.amount = amount, !.type = type,
                                        !.now = clock]]
    /\ pc' = [pc EXCEPT ![t] = "adj_select"]
    /\ UNCHANGED <<cap, ledger, lock, wcap, wledger, clock, ret, log>>
    /\ handles' = handles + 1

\* SELECT current_capital FROM capital_state WHERE id = 1, then the
\* computation of new_capital and the test for a negative result.  The
\* SELECT runs outside a transaction and reads the committed table.
AdjustSelect(t) ==
    /\ pc[t] = "adj_select"
    /\ UNCHANGED <<cacheVars, gosVars, stateVars, tokenVars, svcVars>>
    /\ IF ~cap.exists
       THEN /\ Return(t, FALSE, "not_initialized")
            /\ UNCHANGED <<cap, ledger, lock, wcap, wledger, clock>>
       ELSE LET previous_capital == cap.current_capital
                new_capital == NewCapital(previous_capital,
                                          args[t].amount, args[t].type)
            IN  IF WouldBeNegative(new_capital)
                THEN /\ Return(t, FALSE, "negative_capital")
                     /\ UNCHANGED <<cap, ledger, lock, wcap, wledger, clock>>
                ELSE /\ new_capital <= MaxCapital
                     /\ args' = [args EXCEPT
                                   ![t].previous_capital = previous_capital,
                                   ![t].new_capital = new_capital]
                     /\ pc' = [pc EXCEPT ![t] = "adj_update"]
                     /\ UNCHANGED <<cap, ledger, lock, wcap, wledger, clock,
                                    ret, log, handles>>

\* UPDATE capital_state SET ... WHERE id = 1.  The statement opens the write
\* transaction and updates the row as it is committed at that moment.
AdjustUpdate(t) ==
    /\ pc[t] = "adj_update"
    /\ UNCHANGED <<cacheVars, gosVars, stateVars, tokenVars, svcVars>>
    /\ lock = NoLock
    /\ lock' = t
    /\ wcap' = IF cap.exists
               THEN UpdatedCapitalRow(cap, args[t].new_capital, args[t].now)
               ELSE cap
    /\ pc' = [pc EXCEPT ![t] = "adj_insert"]
    /\ UNCHANGED <<cap, ledger, wledger, clock, args, ret, log, handles>>

\* The same statement when another connection holds the write lock for the
\* whole busy timeout: sqlite3.OperationalError, caught, return False.
AdjustUpdateLocked(t) ==
    /\ pc[t] = "adj_update"
    /\ UNCHANGED <<cacheVars, gosVars, stateVars, tokenVars, svcVars>>
    /\ lock \notin {NoLock, t}
    /\ Return(t, FALSE, "adjust_error_locked")
    /\ UNCHANGED <<cap, ledger, lock, wcap, wledger, clock>>

\* INSERT INTO capital_adjustments ...; "Record adjustment".  A row whose
\* adjustment_type fails the CHECK constraint raises sqlite3.IntegrityError:
\* the handler returns False and the connection is closed uncommitted.
AdjustInsert(t) ==
    /\ pc[t] = "adj_insert"
    /\ UNCHANGED <<cacheVars, gosVars, stateVars, tokenVars, svcVars>>
    /\ lock = t
    /\ IF CheckAdjustmentType(args[t].type)
       THEN /\ wledger' = InsertLedger(wledger,
                            AdjustmentRow(args[t].now, args[t].type,
                                          args[t].amount,
                                          args[t].previous_capital,
                                          args[t].new_capital))
            /\ pc' = [pc EXCEPT ![t] = "adj_commit"]
            /\ UNCHANGED <<cap, ledger, lock, wcap, clock, args, ret, log, handles>>
       ELSE /\ CloseWithoutCommit
            /\ Return(t, FALSE, "adjust_error_check")
            /\ UNCHANGED clock

\* conn.commit(); return True.
AdjustCommit(t) ==
    /\ pc[t] = "adj_commit"
    /\ UNCHANGED <<cacheVars, gosVars, stateVars, tokenVars, svcVars>>
    /\ lock = t
    /\ Commit
    /\ Return(t, TRUE, "adjusted")
    /\ UNCHANGED clock

\* ------------------------------------------------------------------ cache
\* datetime.now() advances between the statements of the cache.
CacheTick ==
    /\ clock < MaxTime
    /\ clock' = clock + 1
    /\ UNCHANGED capitalVars
    /\ UNCHANGED <<cacheVars, gosVars, svcVars>>

\* def __init__: a new CacheManager is built on the existing file while no
\* call is running.  CREATE TABLE IF NOT EXISTS and INSERT OR IGNORE leave
\* the stored rows and counters as they are.
Construct ==
    /\ rlock = NoLock
    /\ last_cleanup' = clock
    /\ last_sweep' = clock
    /\ cret' = CacheReturn("__init__", "", PyNone)
    /\ calls' = calls + 1
    /\ UNCHANGED <<cache, cache_stats, rlock, cpc, cargs, written>>
    /\ UNCHANGED <<clock, capitalVars>>

CleanupDueInclusive(now, last) == now - last >= CleanupInterval

\* _maybe_cleanup: if now - self._last_cleanup > self.cleanup_interval.
CleanupDue(now, last) == now - last > CleanupInterval

\* def set(self, key, value, ttl_seconds): with self._lock, and the test
\* of _maybe_cleanup.
SetCall(t, keys, values, ttls) ==
    /\ rlock = NoLock
    /\ \E key \in keys, value \in values, ttl_seconds \in ttls :
          cargs' = [key |-> key, value |-> value,
                    ttl_seconds |-> ttl_seconds, now |-> clock]
    /\ rlock' = t
    /\ cpc' = IF CleanupDue(clock, last_cleanup) THEN "cleanup" ELSE "insert"
    /\ calls' = calls + 1
    /\ UNCHANGED <<cache, cache_stats, last_cleanup, cret, written,
                   last_sweep>>
    /\ UNCHANGED <<clock, capitalVars>>

\* DELETE FROM cache WHERE expires_at <= ?
DeleteEveryRow(rows, now) == [k \in StoredKeys |-> NoEntry]

DeleteExpired(rows, now) ==
    [k \in StoredKeys |-> IF IsExpired(rows[k], now) THEN NoEntry ELSE rows[k]]

\* def _cleanup_expired(self), then self._last_cleanup = now in
\* _maybe_cleanup (the now that _maybe_cleanup read).
CleanupExpired(t) ==
    /\ rlock = t
    /\ cpc = "cleanup"
    /\ LET now   == clock
           count == Cardinality(ExpiredKeys(cache, now))
       IN  IF count > 0
           THEN /\ cache' = DeleteExpired(cache, now)
                /\ cache_stats' = CountEvictions(cache_stats, count, now)
           ELSE UNCHANGED <<cache, cache_stats>>
    /\ last_cleanup' = cargs.now
    /\ last_sweep' = cargs.now
    /\ cpc' = "insert"
    /\ UNCHANGED <<rlock, cargs, cret, calls, written>>
    /\ UNCHANGED <<clock, capitalVars>>

\* The rest of set: serialize, INSERT OR REPLACE, count the set, commit.
SetInsert(t) ==
    /\ rlock = t
    /\ cpc = "insert"
    /\ LET cache_key  == GenerateKey(cargs.key)
           now        == clock
           expires_at == ExpiresAt(now, cargs.ttl_seconds)
           value_json == Dumps(cargs.value)
       IN  IF value_json = DumpsError
           THEN /\ cret' = CacheReturn("set", cargs.key, PyBool(FALSE))
                /\ UNCHANGED <<cache, cache_stats, written>>
           ELSE /\ cache' = InsertOrReplace(cache, cache_key,
                                CacheRow(value_json, now, expires_at))
                /\ cache_stats' = CountSet(cache_stats, now)
                /\ written' = [written EXCEPT ![cache_key] =
                                  [present |-> TRUE, value |-> cargs.value,
                                   at |-> now, ttl |-> cargs.ttl_seconds]]
                /\ cret' = CacheReturn("set", cargs.key, PyBool(TRUE))
    /\ rlock' = NoLock
    /\ cpc' = "idle"
    /\ cargs' = NoCacheArgs
    /\ UNCHANGED <<last_cleanup, calls, last_sweep>>
    /\ UNCHANGED <<clock, capitalVars>>

\* def get(self, key)
Get(t, keys) ==
    /\ rlock = NoLock
    /\ \E key \in keys :
          LET cache_key == GenerateKey(key)
              now       == clock
              row       == cache[cache_key]
          IN  IF IsLive(row, now)
              THEN /\ cache' = Touch(cache, cache_key, now)
                   /\ cache_stats' = CountHit(cache_stats, now)
                   /\ cret' = CacheReturn("get", key, Loads(row.value))
              ELSE /\ cache_stats' = CountMiss(cache_stats, now)
                   /\ cret' = CacheReturn("get", key, PyNone)
                   /\ UNCHANGED cache
    /\ calls' = calls + 1
    /\ UNCHANGED <<last_cleanup, rlock, cpc, cargs, written, last_sweep>>
    /\ UNCHANGED <<clock, capitalVars>>

DeleteLiveOnly(t, keys) ==
    /\ rlock = NoLock
    /\ \E key \in keys :
          LET cache_key == GenerateKey(key)
          IN  /\ cache' = [cache EXCEPT ![cache_key] = NoEntry]
              /\ written' = [written EXCEPT ![cache_key] = NoEntry]
              /\ cret' = CacheReturn("delete", key,
                                     PyBool(IsLive(cache[cache_key], clock)))
    /\ calls' = calls + 1
    /\ UNCHANGED <<cache_stats, last_cleanup, rlock, cpc, cargs, last_sweep>>
    /\ UNCHANGED <<clock, capitalVars>>

DeleteUnlocked(t, keys) ==
    /\ \E key \in keys :
          LET cache_key == GenerateKey(key)
          IN  /\ cache' = [cache EXCEPT ![cache_key] = NoEntry]
              /\ written' = [written EXCEPT ![cache_key] = NoEntry]
              /\ cret' = CacheReturn("delete", key,
                                     PyBool(cache[cache_key].present))
    /\ calls' = calls + 1
    /\ UNCHANGED <<cache_stats, last_cleanup, rlock, cpc, cargs, last_sweep>>
    /\ UNCHANGED <<clock, capitalVars>>

\* def delete(self, key): returns cursor.rowcount > 0.  The whole body runs
\* under `with self._lock:`.
Delete(t, keys) ==
    /\ rlock = NoLock
    /\ \E key \in keys :
          LET cache_key == GenerateKey(key)
          IN  /\ cache' = [cache EXCEPT ![cache_key] = NoEntry]
              /\ written' = [written EXCEPT ![cache_key] = NoEntry]
              /\ cret' = CacheReturn("delete", key,
                                     PyBool(cache[cache_key].present))
    /\ calls' = calls + 1
    /\ UNCHANGED <<cache_stats, last_cleanup, rlock, cpc, cargs, last_sweep>>
    /\ UNCHANGED <<clock, capitalVars>>

ClearAndReset(t) ==
    /\ rlock = NoLock
    /\ cache' = [k \in StoredKeys |-> NoEntry]
    /\ written' = [k \in StoredKeys |-> NoEntry]
    /\ cache_stats' = InitialStats(clock)
    /\ cret' = CacheReturn("clear", "",
                           PyInt(Cardinality(PresentKeys(cache))))
    /\ calls' = calls + 1
    /\ UNCHANGED <<last_cleanup, rlock, cpc, cargs, last_sweep>>
    /\ UNCHANGED <<clock, capitalVars>>

\* def clear(self): returns the number of rows it removed.
Clear(t) ==
    /\ rlock = NoLock
    /\ cache' = [k \in StoredKeys |-> NoEntry]
    /\ written' = [k \in StoredKeys |-> NoEntry]
    /\ cret' = CacheReturn("clear", "",
                           PyInt(Cardinality(PresentKeys(cache))))
    /\ calls' = calls + 1
    /\ UNCHANGED <<cache_stats, last_cleanup, rlock, cpc, cargs, last_sweep>>
    /\ UNCHANGED <<clock, capitalVars>>

\* def get_stats(self): the entry counts and the persistent counters.
StatsDict(rows, stats, now) ==
    [py |-> "dict",
     total_entries   |-> Cardinality(PresentKeys(rows)),
     expired_entries |-> Cardinality(ExpiredKeys(rows, now)),
     total_hits      |-> stats.total_hits,
     total_misses    |-> stats.total_misses,
     total_sets      |-> stats.total_sets,
     total_evictions |-> stats.total_evictions]

GetStats(t) ==
    /\ rlock = NoLock
    /\ cret' = CacheReturn("get_stats", "",
                           StatsDict(cache, cache_stats, clock))
    /\ calls' = calls + 1
    /\ UNCHANGED <<cache, cache_stats, last_cleanup, rlock, cpc, cargs,
                   written, last_sweep>>
    /\ UNCHANGED <<clock, capitalVars>>


\* --------------------------------------------------------- specifications
\* One caller: calls follow one another.
Next ==
    \/ Tick
    \/ \E t \in SeqThreads :
          \/ (Len(ledger) < MaxLedger /\ InitializeCall(t, Amounts))
          \/ InitializeSelect(t)
          \/ InitializeInsertState(t)
          \/ InitializeInsertLedger(t)
          \/ InitializeCommit(t)
          \/ (Len(ledger) < MaxLedger /\ AdjustCall(t, Amounts, TypeArgs))
          \/ AdjustSelect(t)
          \/ AdjustUpdate(t)
          \/ AdjustInsert(t)
          \/ AdjustCommit(t)

Spec == Init /\ [][Next]_vars

\* Several threads calling into the same store file.
InFlight == Cardinality({t \in Threads : pc[t] # "idle"})

NextConc ==
    \/ Tick
    \/ \E t \in Threads :
          \/ (Len(ledger) + InFlight < MaxLedgerConc
                /\ InitializeCall(t, ConcAmounts))
          \/ InitializeSelect(t)
          \/ InitializeInsertState(t)
          \/ InitializeInsertStateLocked(t)
          \/ InitializeInsertLedger(t)
          \/ InitializeCommit(t)
          \/ (Len(ledger) + InFlight < MaxLedgerConc
                /\ AdjustCall(t, ConcAmounts, ConcTypeArgs))
          \/ AdjustSelect(t)
          \/ AdjustUpdate(t)
          \/ AdjustUpdateLocked(t)
          \/ AdjustInsert(t)
          \/ AdjustCommit(t)

SpecConc == Init /\ [][NextConc]_vars

TypeOK ==
    /\ lock \in Threads \cup {NoLock}
    /\ clock \in 0..MaxClock
    /\ Len(ledger) <= IF MaxLedger > MaxLedgerConc
                      THEN MaxLedger ELSE MaxLedgerConc
    /\ (lock = NoLock) => (wcap = cap /\ wledger = ledger)


\* The cache, called from several threads.
NextCache ==
    \/ CacheTick
    \/ (calls < MaxCalls /\ Construct /\ UNCHANGED <<gosVars, svcVars>>)
    \/ \E t \in Threads :
          \/ (calls < MaxCalls
                /\ SetCall(t, CacheKeyArgs, CacheValueArgs, TtlArgs)
                /\ UNCHANGED <<gosVars, svcVars>>)
          \/ (CleanupExpired(t) /\ UNCHANGED <<gosVars, svcVars>>)
          \/ (SetInsert(t) /\ UNCHANGED <<gosVars, svcVars>>)
          \/ (calls < MaxCalls /\ Get(t, CacheKeyArgs) /\ UNCHANGED <<gosVars, svcVars>>)
          \/ (calls < MaxCalls /\ Delete(t, CacheKeyArgs)
                /\ UNCHANGED <<gosVars, svcVars>>)
          \/ (calls < MaxCalls /\ Clear(t) /\ UNCHANGED <<gosVars, svcVars>>)
          \/ (calls < MaxCalls /\ GetStats(t) /\ UNCHANGED <<gosVars, svcVars>>)

SpecCache == Init /\ [][NextCache]_vars

CacheTypeOK ==
    /\ clock \in 0..MaxTime
    /\ calls \in 0..MaxCalls
    /\ rlock \in Threads \cup {NoLock}
    /\ cpc \in {"idle", "cleanup", "insert"}
    /\ (rlock = NoLock) <=> (cpc = "idle")
    /\ last_cleanup \in 0..MaxTime

\* One caller storing values of every kind under one key and reading them
\* back.
NextValues ==
    \/ CacheTick
    \/ \E t \in SeqThreads :
          \/ (calls < MaxCalls
                /\ SetCall(t, {"k1"}, FidelityValueArgs, FidelityTtlArgs)
                /\ UNCHANGED <<gosVars, svcVars>>)
          \/ (CleanupExpired(t) /\ UNCHANGED <<gosVars, svcVars>>)
          \/ (SetInsert(t) /\ UNCHANGED <<gosVars, svcVars>>)
          \/ (calls < MaxCalls /\ Get(t, {"k1"}) /\ UNCHANGED <<gosVars, svcVars>>)

SpecValues == Init /\ [][NextValues]_vars

\* ------------------------------------------------------------ get_or_set
\* def get_or_set(self, key, factory, ttl_seconds): the call is entered with
\* its arguments bound; self._lock is not taken here.
GetOrSetCall(t, keys, factories, ttls) ==
    /\ gpc[t] = "idle"
    /\ rlock # t
    /\ \E key \in keys, factory \in factories, ttl_seconds \in ttls :
          gargs' = [gargs EXCEPT ![t] =
                       [key |-> key, factory |-> factory,
                        ttl_seconds |-> ttl_seconds, value |-> PyNone]]
    /\ gpc' = [gpc EXCEPT ![t] = "get"]
    /\ invoked' = [invoked EXCEPT ![t] = 0]
    /\ UNCHANGED <<gret, clock, capitalVars, cacheVars, svcVars>>

\* value = self.get(key); if value is not None: return value
GetOrSetGet(t) ==
    /\ gpc[t] = "get"
    /\ Get(t, {gargs[t].key})
    /\ IF cret'.value # PyNone
       THEN /\ gret' = GetOrSetReturn(t, gargs[t].key, cret'.value)
            /\ gpc' = [gpc EXCEPT ![t] = "idle"]
       ELSE /\ gpc' = [gpc EXCEPT ![t] = "factory"]
            /\ UNCHANGED gret
    /\ UNCHANGED <<gargs, invoked, svcVars>>

\* value = factory(); a factory that raises, or returns None, ends the call
\* with None and without a set.
GetOrSetFactory(t) ==
    /\ gpc[t] = "factory"
    /\ invoked' = [invoked EXCEPT ![t] = invoked[t] + 1]
    /\ LET factory == gargs[t].factory
       IN  IF factory.outcome = "raises" \/ factory.value = PyNone
           THEN /\ gret' = GetOrSetReturn(t, gargs[t].key, PyNone)
                /\ gpc' = [gpc EXCEPT ![t] = "idle"]
                /\ UNCHANGED gargs
           ELSE /\ gargs' = [gargs EXCEPT ![t].value = factory.value]
                /\ gpc' = [gpc EXCEPT ![t] = "set"]
                /\ UNCHANGED gret
    /\ UNCHANGED <<clock, capitalVars, cacheVars, svcVars>>

\* self.set(key, value, ttl_seconds): the call of set, whose result is
\* not looked at.
GetOrSetSet(t) ==
    /\ gpc[t] = "set"
    /\ SetCall(t, {gargs[t].key}, {gargs[t].value}, {gargs[t].ttl_seconds})
    /\ gpc' = [gpc EXCEPT ![t] = "return"]
    /\ UNCHANGED <<gargs, gret, invoked, svcVars>>

\* return value, once set has returned.
GetOrSetDone(t) ==
    /\ gpc[t] = "return"
    /\ rlock # t
    /\ gret' = GetOrSetReturn(t, gargs[t].key, gargs[t].value)
    /\ gpc' = [gpc EXCEPT ![t] = "idle"]
    /\ UNCHANGED <<gargs, invoked, clock, capitalVars, cacheVars, svcVars>>

GetOrSetValueArgs == {PyNone, PyDict("v1")}

GetOrSetTtlArgs == {2}

\* Two threads use one CacheManager on the key k1: set, delete and
\* get_or_set.
NextGetOrSet ==
    \/ CacheTick
    \/ \E t \in Threads :
          \/ (calls < MaxCalls /\ gpc[t] = "idle"
                /\ SetCall(t, {"k1"}, GetOrSetValueArgs, GetOrSetTtlArgs)
                /\ UNCHANGED <<gosVars, svcVars>>)
          \/ (CleanupExpired(t) /\ UNCHANGED <<gosVars, svcVars>>)
          \/ (SetInsert(t) /\ UNCHANGED <<gosVars, svcVars>>)
          \/ (calls < MaxCalls /\ gpc[t] = "idle"
                /\ Delete(t, {"k1"}) /\ UNCHANGED <<gosVars, svcVars>>)
          \/ (calls < MaxCalls
                /\ GetOrSetCall(t, {"k1"}, FactoryArgs, GetOrSetTtlArgs))
          \/ GetOrSetGet(t)
          \/ GetOrSetFactory(t)
          \/ GetOrSetSet(t)
          \/ GetOrSetDone(t)

SpecGetOrSet == Init /\ [][NextGetOrSet]_vars

\* One caller uses short keys and a long key: set, get, delete, get_or_set.
KeyFactoryArgs == {FactoryReturns(PyDict("v2")), FactoryRaises}

KeyValueArgs == {PyDict("v1")}

NextKeys ==
    \/ CacheTick
    \/ \E t \in SeqThreads :
          \/ (calls < MaxCalls /\ gpc[t] = "idle"
                /\ SetCall(t, AllKeyArgs, KeyValueArgs, TtlArgs)
                /\ UNCHANGED <<gosVars, svcVars>>)
          \/ (CleanupExpired(t) /\ UNCHANGED <<gosVars, svcVars>>)
          \/ (SetInsert(t) /\ UNCHANGED <<gosVars, svcVars>>)
          \/ (calls < MaxCalls /\ gpc[t] = "idle"
                /\ Get(t, AllKeyArgs) /\ UNCHANGED <<gosVars, svcVars>>)
          \/ (calls < MaxCalls /\ gpc[t] = "idle"
                /\ Delete(t, AllKeyArgs) /\ UNCHANGED <<gosVars, svcVars>>)
          \/ (calls < MaxCalls
                /\ GetOrSetCall(t, AllKeyArgs, KeyFactoryArgs,
                                GetOrSetTtlArgs))
          \/ GetOrSetGet(t)
          \/ GetOrSetFactory(t)
          \/ GetOrSetSet(t)
          \/ GetOrSetDone(t)

SpecKeys == Init /\ [][NextKeys]_vars

\* ------------------------------------------------------------ state store
\* conn = self._get_connection() at the top of a public method.
OpenConnection(t, method) ==
    /\ spc[t] = "idle"
    /\ pc[t] = "idle"
    /\ handles' = handles + 1
    /\ spc' = [spc EXCEPT ![t] = method]

StateReturnKeepsOpen(t, value) ==
    /\ spc' = [spc EXCEPT ![t] = "idle"]
    /\ sargs' = [sargs EXCEPT ![t] = NoStateArgs]
    /\ sret' = [caller |-> t, method |-> sargs[t].method,
                outcome |-> "returned", value |-> value]
    /\ handles' = handles

\* return ...; finally: conn.close()
StateReturn(t, value) ==
    /\ spc' = [spc EXCEPT ![t] = "idle"]
    /\ sargs' = [sargs EXCEPT ![t] = NoStateArgs]
    /\ sret' = [caller |-> t, method |-> sargs[t].method,
                outcome |-> "returned", value |-> value]
    /\ handles' = handles - 1

\* An exception that no except clause of the method catches:
\* finally: conn.close(), and the exception reaches the caller.
StateRaise(t, error) ==
    /\ spc' = [spc EXCEPT ![t] = "idle"]
    /\ sargs' = [sargs EXCEPT ![t] = NoStateArgs]
    /\ sret' = [caller |-> t, method |-> sargs[t].method,
                outcome |-> "raised", value |-> [py |-> error]]
    /\ handles' = handles - 1

\* def set(self, key, value)
StateSetCall(t, keys, values) ==
    /\ OpenConnection(t, "set_insert")
    /\ \E key \in keys, value \in values :
          sargs' = [sargs EXCEPT ![t] =
                       [NoStateArgs EXCEPT !.method = "set", !.key = key,
                                           !.value = value]]
    /\ UNCHANGED <<app_state, sessions, audit, sret, swritten>>
    /\ UNCHANGED <<clock, capVars, cacheVars, gosVars, tokenVars, svcVars>>

\* now = datetime.now(); value_type; value_json; INSERT OR REPLACE;
\* conn.commit(); return True
StateSetInsert(t) ==
    /\ spc[t] = "set_insert"
    /\ lock = NoLock
    /\ LET key        == sargs[t].key
           value      == sargs[t].value
           now        == clock
           value_type == value.py
           value_json == Dumps(value)
       IN  IF value_json = DumpsError
           THEN /\ StateRaise(t, "ValueError")
                /\ UNCHANGED <<app_state, swritten>>
           ELSE /\ app_state' = StateUpsert(app_state, key, value_json,
                                            value_type, now)
                /\ swritten' = [swritten EXCEPT ![key] =
                      [present |-> TRUE, value |-> value,
                       first_at |-> IF swritten[key].present
                                    THEN swritten[key].first_at ELSE now,
                       last_at |-> now]]
                /\ StateReturn(t, PyBool(TRUE))
    /\ UNCHANGED <<sessions, audit>>
    /\ UNCHANGED <<clock, capVars, cacheVars, gosVars, tokenVars, svcVars>>

\* def get(self, key, default)
StateGetCall(t, keys, defaults) ==
    /\ OpenConnection(t, "get_select")
    /\ \E key \in keys, default \in defaults :
          sargs' = [sargs EXCEPT ![t] =
                       [NoStateArgs EXCEPT !.method = "get", !.key = key,
                                           !.default = default]]
    /\ UNCHANGED <<app_state, sessions, audit, sret, swritten>>
    /\ UNCHANGED <<clock, capVars, cacheVars, gosVars, tokenVars, svcVars>>

\* SELECT value FROM app_state WHERE key = ?; return json.loads(row['value'])
\* if there is a row, else default.
StateGetSelect(t) ==
    /\ spc[t] = "get_select"
    /\ LET row == app_state[sargs[t].key]
       IN  IF row.present
           THEN StateReturn(t, Loads(row.value))
           ELSE StateReturn(t, sargs[t].default)
    /\ UNCHANGED <<app_state, sessions, audit, swritten>>
    /\ UNCHANGED <<clock, capVars, cacheVars, gosVars, tokenVars, svcVars>>

\* def delete(self, key)
StateDeleteCall(t, keys) ==
    /\ OpenConnection(t, "delete_exec")
    /\ \E key \in keys :
          sargs' = [sargs EXCEPT ![t] =
                       [NoStateArgs EXCEPT !.method = "delete", !.key = key]]
    /\ UNCHANGED <<app_state, sessions, audit, sret, swritten>>
    /\ UNCHANGED <<clock, capVars, cacheVars, gosVars, tokenVars, svcVars>>

\* DELETE FROM app_state WHERE key = ?; conn.commit();
\* return cursor.rowcount > 0
StateDeleteExec(t) ==
    /\ spc[t] = "delete_exec"
    /\ lock = NoLock
    /\ LET key == sargs[t].key
       IN  /\ app_state' = [app_state EXCEPT ![key] = NoEntry]
           /\ swritten' = [swritten EXCEPT ![key] = NoEntry]
           /\ StateReturn(t, PyBool(app_state[key].present))
    /\ UNCHANGED <<sessions, audit>>
    /\ UNCHANGED <<clock, capVars, cacheVars, gosVars, tokenVars, svcVars>>

\* def log_order_action(self, action, instrument, ..., details)
LogCall(t, actions, instruments, detailses) ==
    /\ OpenConnection(t, "log_insert")
    /\ \E action \in actions, instrument \in instruments,
          details \in detailses :
          sargs' = [sargs EXCEPT ![t] =
                       [NoStateArgs EXCEPT !.method = "log_order_action",
                                           !.action = action,
                                           !.instrument = instrument,
                                           !.details = details]]
    /\ UNCHANGED <<app_state, sessions, audit, sret, swritten>>
    /\ UNCHANGED <<clock, capVars, cacheVars, gosVars, tokenVars, svcVars>>

\* The parameter tuple is built first, with json.dumps(details) if details
\* else None; then INSERT INTO order_audit_log, whose action and instrument
\* columns are NOT NULL (sqlite3.IntegrityError, caught: return False);
\* conn.commit(); return True.
LogInsert(t) ==
    /\ spc[t] = "log_insert"
    /\ lock = NoLock
    /\ LET details_json == IF Truthy(sargs[t].details)
                           THEN DumpsStrict(sargs[t].details)
                           ELSE SqlNull
       IN  IF details_json \in {DumpsError, DumpsTypeError}
           THEN /\ StateRaise(t, details_json.json)
                /\ UNCHANGED audit
           ELSE IF sargs[t].action = PyNone \/ sargs[t].instrument = PyNone
                THEN /\ StateReturn(t, PyBool(FALSE))
                     /\ UNCHANGED audit
                ELSE /\ audit' = Append(audit,
                                        AuditRow(clock, sargs[t].action,
                                                 sargs[t].instrument,
                                                 details_json))
                     /\ StateReturn(t, PyBool(TRUE))
    /\ UNCHANGED <<app_state, sessions, swritten>>
    /\ UNCHANGED <<clock, capVars, cacheVars, gosVars, tokenVars, svcVars>>

\* One caller uses the generic state store and the order audit log.
NextStore ==
    \/ Tick
    \/ \E t \in SeqThreads :
          \/ StateSetCall(t, StateKeyArgs, StateValueArgs)
          \/ StateSetInsert(t)
          \/ StateGetCall(t, StateKeyArgs, DefaultArgs)
          \/ StateGetSelect(t)
          \/ StateDeleteCall(t, StateKeyArgs)
          \/ StateDeleteExec(t)
          \/ (Len(audit) < MaxAudit
                /\ LogCall(t, ActionArgs, {PyStr("NIFTY")}, DetailsArgs))
          \/ LogInsert(t)

SpecStore == Init /\ [][NextStore]_vars

\* ---------------------------------------------------------------- sessions
\* A row of session_state: id INTEGER PRIMARY KEY, session_date UNIQUE,
\* starting_capital, and the columns that default to 0.
SessionRow(id, session_date, starting_capital) ==
    [present |-> TRUE, id |-> id, session_date |-> session_date,
     starting_capital |-> starting_capital, realized_pnl |-> 0,
     unrealized_pnl |-> 0, trades_count |-> 0]

\* dict(row)
PySession(row) == [py |-> "dict", row |-> row]

PnlArgs == {1}

\* def get_or_create_session(self, session_date)
SessionCall(t, dates) ==
    /\ OpenConnection(t, "ses_select")
    /\ \E session_date \in dates :
          sargs' = [sargs EXCEPT ![t] =
                       [NoStateArgs EXCEPT !.method = "get_or_create_session",
                                           !.date = session_date]]
    /\ UNCHANGED <<app_state, sessions, audit, sret, swritten>>
    /\ UNCHANGED <<clock, capVars, cacheVars, gosVars, tokenVars, svcVars>>

\* SELECT * FROM session_state WHERE session_date = ?; if row: return
\* dict(row)
SessionSelect(t) ==
    /\ spc[t] = "ses_select"
    /\ LET row == sessions[sargs[t].date]
       IN  IF row.present
           THEN StateReturn(t, PySession(row))
           ELSE /\ spc' = [spc EXCEPT ![t] = "ses_capital"]
                /\ UNCHANGED <<sargs, sret, handles>>
    /\ UNCHANGED <<app_state, sessions, audit, swritten>>
    /\ UNCHANGED <<clock, capVars, cacheVars, gosVars, tokenVars, svcVars>>

\* capital_state = self.get_capital_state(): the call opens a connection of
\* its own while the caller's is open.
SessionCapitalCall(t) ==
    /\ spc[t] = "ses_capital"
    /\ handles' = handles + 1
    /\ spc' = [spc EXCEPT ![t] = "ses_capital_select"]
    /\ UNCHANGED <<app_state, sessions, audit, sargs, sret, swritten>>
    /\ UNCHANGED <<clock, capVars, cacheVars, gosVars, tokenVars, svcVars>>

\* def get_capital_state: SELECT * FROM capital_state WHERE id = 1 reads the
\* committed row; finally: conn.close().  Then starting_capital =
\* capital_state['current_capital'] if capital_state else 0.
SessionCapitalSelect(t) ==
    /\ spc[t] = "ses_capital_select"
    /\ handles' = handles - 1
    /\ sargs' = [sargs EXCEPT ![t].starting_capital =
                    IF cap.exists THEN cap.current_capital ELSE 0]
    /\ spc' = [spc EXCEPT ![t] = "ses_insert"]
    /\ UNCHANGED <<app_state, sessions, audit, sret, swritten>>
    /\ UNCHANGED <<clock, capVars, cacheVars, gosVars, tokenVars, svcVars>>

\* INSERT INTO session_state (session_date, starting_capital); conn.commit().
\* session_date is UNIQUE: a row committed for the date since the SELECT
\* makes the INSERT fail with sqlite3.IntegrityError, and the handler
\* returns {}.
SessionInsert(t) ==
    /\ spc[t] = "ses_insert"
    /\ lock = NoLock
    /\ LET session_date == sargs[t].date
           id == Cardinality({d \in DateArgs : sessions[d].present}) + 1
       IN  IF sessions[session_date].present
           THEN /\ StateReturn(t, PyMapping({}))
                /\ UNCHANGED sessions
           ELSE /\ sessions' = [sessions EXCEPT ![session_date] =
                                   SessionRow(id, session_date,
                                              sargs[t].starting_capital)]
                /\ spc' = [spc EXCEPT ![t] = "ses_reselect"]
                /\ UNCHANGED <<sargs, sret, handles>>
    /\ UNCHANGED <<app_state, audit, swritten>>
    /\ UNCHANGED <<clock, capVars, cacheVars, gosVars, tokenVars, svcVars>>

\* SELECT * FROM session_state WHERE session_date = ?;
\* return dict(cursor.fetchone())
SessionReselect(t) ==
    /\ spc[t] = "ses_reselect"
    /\ StateReturn(t, PySession(sessions[sargs[t].date]))
    /\ UNCHANGED <<app_state, sessions, audit, swritten>>
    /\ UNCHANGED <<clock, capVars, cacheVars, gosVars, tokenVars, svcVars>>

\* def update_session_pnl(self, realized_pnl, unrealized_pnl, session_date)
UpdateSessionPnlCall(t, pnls, dates) ==
    /\ OpenConnection(t, "pnl_update")
    /\ \E realized_pnl \in pnls, unrealized_pnl \in pnls,
          session_date \in dates :
          sargs' = [sargs EXCEPT ![t] =
                       [NoStateArgs EXCEPT !.method = "update_session_pnl",
                                           !.realized_pnl = realized_pnl,
                                           !.unrealized_pnl = unrealized_pnl,
                                           !.date = session_date]]
    /\ UNCHANGED <<app_state, sessions, audit, sret, swritten>>
    /\ UNCHANGED <<clock, capVars, cacheVars, gosVars, tokenVars, svcVars>>

\* UPDATE session_state SET realized_pnl = ?, unrealized_pnl = ?, ...
\* WHERE session_date = ?; conn.commit(); return cursor.rowcount > 0
UpdateSessionPnl(t) ==
    /\ spc[t] = "pnl_update"
    /\ lock = NoLock
    /\ LET session_date == sargs[t].date
           row == sessions[session_date]
       IN  IF row.present
           THEN /\ sessions' = [sessions EXCEPT ![session_date] =
                      [row EXCEPT !.realized_pnl = sargs[t].realized_pnl,
                                  !.unrealized_pnl = sargs[t].unrealized_pnl]]
                /\ StateReturn(t, PyBool(TRUE))
           ELSE /\ StateReturn(t, PyBool(FALSE))
                /\ UNCHANGED sessions
    /\ UNCHANGED <<app_state, audit, swritten>>
    /\ UNCHANGED <<clock, capVars, cacheVars, gosVars, tokenVars, svcVars>>

SessionAmounts == {1}

SessionTypeArgs == {"DEPOSIT"}

\* Two threads use the sessions and the capital of one file.
NextSession ==
    \E t \in Threads :
       \/ SessionCall(t, DateArgs)
       \/ SessionSelect(t)
       \/ SessionCapitalCall(t)
       \/ SessionCapitalSelect(t)
       \/ SessionInsert(t)
       \/ SessionReselect(t)
       \/ UpdateSessionPnlCall(t, PnlArgs, DateArgs)
       \/ UpdateSessionPnl(t)
       \/ (spc[t] = "idle" /\ Len(ledger) + InFlight < MaxLedgerConc
             /\ InitializeCall(t, SessionAmounts))
       \/ InitializeSelect(t)
       \/ InitializeInsertState(t)
       \/ InitializeInsertLedger(t)
       \/ InitializeCommit(t)
       \/ (spc[t] = "idle" /\ Len(ledger) + InFlight < MaxLedgerConc
             /\ AdjustCall(t, SessionAmounts, SessionTypeArgs))
       \/ AdjustSelect(t)
       \/ AdjustUpdate(t)
       \/ AdjustInsert(t)
       \/ AdjustCommit(t)

SpecSession == Init /\ [][NextSession]_vars

\* ----------------------------------------------------------------- history
\* Both history tables have an index on timestamp, and SQLite answers
\* ORDER BY timestamp DESC by walking that index backwards: rows come by
\* descending timestamp and, within one timestamp, by descending id.
NewestStable(rows, ids) ==
    CHOOSE i \in ids :
       \A j \in ids :
          \/ rows[j].timestamp < rows[i].timestamp
          \/ rows[j].timestamp = rows[i].timestamp /\ i <= j

Newest(rows, ids) ==
    CHOOSE i \in ids :
       \A j \in ids :
          \/ rows[j].timestamp < rows[i].timestamp
          \/ rows[j].timestamp = rows[i].timestamp /\ j <= i

RECURSIVE OrderByTimestampDesc(_, _)
OrderByTimestampDesc(rows, ids) ==
    IF ids = {}
    THEN <<>>
    ELSE LET i == Newest(rows, ids)
         IN  <<i>> \o OrderByTimestampDesc(rows, ids \ {i})

\* LIMIT ?: the first n rows; a negative LIMIT is no limit in SQLite.
Limit(seq, n) ==
    IF n < 0 \/ n >= Len(seq) THEN seq ELSE SubSeq(seq, 1, n)

\* [dict(row) for row in rows] of SELECT * ... ORDER BY timestamp DESC
\* LIMIT ?, over the rows of the table whose ids are given.
SelectNewestFirst(rows, ids, limit) ==
    LET order == Limit(OrderByTimestampDesc(rows, ids), limit)
    IN  PyList([k \in 1..Len(order) |->
                   [id |-> order[k]] @@ rows[order[k]]])

\* def get_capital_history(self, limit, adjustment_type)
HistoryCall(t, limits, types) ==
    /\ OpenConnection(t, "history_select")
    /\ \E limit \in limits, adjustment_type \in types :
          sargs' = [sargs EXCEPT ![t] =
                       [NoStateArgs EXCEPT !.method = "get_capital_history",
                                           !.limit = limit,
                                           !.adjustment_type =
                                               adjustment_type]]
    /\ UNCHANGED <<app_state, sessions, audit, sret, swritten>>
    /\ UNCHANGED <<clock, capVars, cacheVars, gosVars, tokenVars, svcVars>>

\* if adjustment_type: ... WHERE adjustment_type = ? ...; else: every row.
\* The SELECT reads the committed table.
HistorySelect(t) ==
    /\ spc[t] = "history_select"
    /\ LET type == sargs[t].adjustment_type
           ids  == {i \in 1..Len(ledger) :
                       type # NullType => ledger[i].adjustment_type = type}
       IN  StateReturn(t, SelectNewestFirst(ledger, ids, sargs[t].limit))
    /\ UNCHANGED <<app_state, sessions, audit, swritten>>
    /\ UNCHANGED <<clock, capVars, cacheVars, gosVars, tokenVars, svcVars>>

\* def get_order_audit_log(self, limit, instrument)
AuditLogCall(t, limits, instruments) ==
    /\ OpenConnection(t, "audit_select")
    /\ \E limit \in limits, instrument \in instruments :
          sargs' = [sargs EXCEPT ![t] =
                       [NoStateArgs EXCEPT !.method = "get_order_audit_log",
                                           !.limit = limit,
                                           !.instrument = instrument]]
    /\ UNCHANGED <<app_state, sessions, audit, sret, swritten>>
    /\ UNCHANGED <<clock, capVars, cacheVars, gosVars, tokenVars, svcVars>>

\* if instrument: ... WHERE instrument = ? ...; else: every row.
AuditLogSelect(t) ==
    /\ spc[t] = "audit_select"
    /\ LET instrument == sargs[t].instrument
           ids == {i \in 1..Len(audit) :
                      Truthy(instrument) => audit[i].instrument = instrument}
       IN  StateReturn(t, SelectNewestFirst(audit, ids, sargs[t].limit))
    /\ UNCHANGED <<app_state, sessions, audit, swritten>>
    /\ UNCHANGED <<clock, capVars, cacheVars, gosVars, tokenVars, svcVars>>

\* One caller changes the capital, logs order actions and reads both
\* histories.
NextHistory ==
    \/ Tick
    \/ \E t \in SeqThreads :
          \/ (spc[t] = "idle" /\ Len(ledger) < MaxLedger
                /\ InitializeCall(t, {1}))
          \/ InitializeSelect(t)
          \/ InitializeInsertState(t)
          \/ InitializeInsertLedger(t)
          \/ InitializeCommit(t)
          \/ (spc[t] = "idle" /\ Len(ledger) < MaxLedger
                /\ AdjustCall(t, {1}, {"DEPOSIT"}))
          \/ AdjustSelect(t)
          \/ AdjustUpdate(t)
          \/ AdjustInsert(t)
          \/ AdjustCommit(t)
          \/ (Len(audit) < MaxAudit
                /\ LogCall(t, {PyStr("PLACE")},
                           {PyStr("NIFTY"), PyStr("BANKNIFTY")}, {PyNone}))
          \/ LogInsert(t)
          \/ HistoryCall(t, (0 - 1)..2,
                         {NullType, "DEPOSIT"})
          \/ HistorySelect(t)
          \/ AuditLogCall(t, (0 - 1)..2,
                          {PyNone, PyStr("NIFTY")})
          \/ AuditLogSelect(t)

SpecHistory == Init /\ [][NextHistory]_vars

\* ------------------------------------------------------------ token manager
\* The characters of the tokens the callers pass, as code points: "A", "z"
\* and "é", which takes two bytes in UTF-8.
TokenChars == {65, 122, 233}

\* The strings of at most n of these characters, '' among them.
TokenStrings(n) == UNION {[1..k -> TokenChars] : k \in 0..n}

\* token.encode(): the UTF-8 bytes of a string of code points below 2048.
Utf8Char(c) == IF c < 128 THEN <<c>> ELSE <<192 + (c \div 64), 128 + (c % 64)>>

RECURSIVE Utf8Encode(_)
Utf8Encode(s) ==
    IF s = <<>> THEN <<>> ELSE Utf8Char(Head(s)) \o Utf8Encode(Tail(s))

\* bytes.decode(): the string, or the UnicodeDecodeError of a byte
\* sequence that is not UTF-8 (of one or two bytes per character).
DecodeError == [ok |-> FALSE, val |-> <<>>]

RECURSIVE Utf8Decode(_)
Utf8Decode(b) ==
    IF b = <<>> THEN [ok |-> TRUE, val |-> <<>>]
    ELSE IF b[1] < 128
         THEN LET rest == Utf8Decode(Tail(b))
              IN  IF rest.ok THEN [ok |-> TRUE, val |-> <<b[1]>> \o rest.val]
                  ELSE DecodeError
    ELSE IF b[1] \in 194..223 /\ Len(b) >= 2 /\ b[2] \in 128..191
         THEN LET rest == Utf8Decode(SubSeq(b, 3, Len(b)))
              IN  IF rest.ok
                  THEN [ok |-> TRUE,
                        val |-> <<(b[1] - 192) * 64 + (b[2] - 128)>> \o rest.val]
                  ELSE DecodeError
    ELSE DecodeError

\* The base64 alphabet: A-Z, a-z, 0-9, "+" and "/"; "=" pads.
B64Char(n) ==
    CASE n < 26 -> 65 + n
      [] n \in 26..51 -> 97 + (n - 26)
      [] n \in 52..61 -> 48 + (n - 52)
      [] n = 62 -> 43
      [] OTHER -> 47

B64Pad == 61

\* The value of a base64 character, or -1 for any other character.
B64Value(c) ==
    CASE c \in 65..90 -> c - 65
      [] c \in 97..122 -> c - 97 + 26
      [] c \in 48..57 -> c - 48 + 52
      [] c = 43 -> 62
      [] c = 47 -> 63
      [] OTHER -> 0 - 1

\* base64.b64encode(b).decode(): three bytes give four characters, and a
\* last group of one or two bytes is padded with "=".
RECURSIVE B64Encode(_)
B64Encode(b) ==
    CASE Len(b) = 0 -> <<>>
      [] Len(b) = 1 ->
            <<B64Char(b[1] \div 4), B64Char((b[1] % 4) * 16), B64Pad, B64Pad>>
      [] Len(b) = 2 ->
            <<B64Char(b[1] \div 4),
              B64Char((b[1] % 4) * 16 + (b[2] \div 16)),
              B64Char((b[2] % 16) * 4), B64Pad>>
      [] OTHER ->
            <<B64Char(b[1] \div 4),
              B64Char((b[1] % 4) * 16 + (b[2] \div 16)),
              B64Char((b[2] % 16) * 4 + (b[3] \div 64)),
              B64Char(b[3] % 64)>> \o B64Encode(SubSeq(b, 4, Len(b)))

\* base64.b64decode(s) (binascii.a2b_base64, not strict): characters outside
\* the alphabet are skipped, a "=" that completes a group of four ends the
\* input, and input that ends inside a group raises binascii.Error.
\* quad_pos is the position in the group, leftchar the bits not yet
\* written, pads the "=" seen since the last character.
RECURSIVE A2bBase64(_, _, _, _, _)
A2bBase64(s, quad_pos, leftchar, pads, out) ==
    IF s = <<>>
    THEN IF quad_pos = 0 THEN [ok |-> TRUE, val |-> out] ELSE DecodeError
    ELSE LET ch == Head(s)
             v  == B64Value(ch)
         IN  IF ch = B64Pad
             THEN IF quad_pos >= 2 /\ quad_pos + pads + 1 >= 4
                  THEN [ok |-> TRUE, val |-> out]
                  ELSE A2bBase64(Tail(s), quad_pos, leftchar,
                                 IF quad_pos >= 2 THEN pads + 1 ELSE pads,
                                 out)
             ELSE IF v < 0
             THEN A2bBase64(Tail(s), quad_pos, leftchar, pads, out)
             ELSE CASE quad_pos = 0 ->
                         A2bBase64(Tail(s), 1, v, 0, out)
                    [] quad_pos = 1 ->
                         A2bBase64(Tail(s), 2, v % 16, 0,
                                   Append(out, leftchar * 4 + (v \div 16)))
                    [] quad_pos = 2 ->
                         A2bBase64(Tail(s), 3, v % 4, 0,
                                   Append(out, leftchar * 16 + (v \div 4)))
                    [] OTHER ->
                         A2bBase64(Tail(s), 0, 0, 0,
                                   Append(out, leftchar * 64 + v))

B64Decode(s) == A2bBase64(s, 0, 0, 0, <<>>)

\* s[::-1]
Reversed(s) == [k \in 1..Len(s) |-> s[Len(s) + 1 - k]]

\* "OBF:"
ObfMarker == <<79, 66, 70, 58>>

\* def _obfuscate(self, token): the marker and the reversed base64 text.
Obfuscate(token) == ObfMarker \o Reversed(B64Encode(Utf8Encode(token)))

\* obfuscated.startswith('OBF:')
StartsWithMarker(s) == Len(s) >= 4 /\ SubSeq(s, 1, 4) = ObfMarker

\* The decoding without the reversal.
DeobfuscateNoReverse(obfuscated) ==
    IF obfuscated = <<>> THEN <<>>
    ELSE IF StartsWithMarker(obfuscated)
         THEN LET bytes == B64Decode(SubSeq(obfuscated, 5, Len(obfuscated)))
                  text  == IF bytes.ok THEN Utf8Decode(bytes.val)
                                       ELSE DecodeError
              IN  IF text.ok THEN text.val ELSE obfuscated
    ELSE obfuscated

\* def _deobfuscate(self, obfuscated): '' for an empty string; a string
\* without the marker, or one that does not decode, is returned as it is.
Deobfuscate(obfuscated) ==
    IF obfuscated = <<>> THEN <<>>
    ELSE IF StartsWithMarker(obfuscated)
         THEN LET encoded == Reversed(SubSeq(obfuscated, 5, Len(obfuscated)))
                  bytes   == B64Decode(encoded)
                  text    == IF bytes.ok THEN Utf8Decode(bytes.val)
                                         ELSE DecodeError
              IN  IF text.ok THEN text.val ELSE obfuscated
    ELSE obfuscated

\* StateManager.store_token: INSERT OR REPLACE INTO token_state ... VALUES
\* (1, ?, ?, ?, now, now), then commit; the row with id = 1 afterwards.
StoreTokenRow(access_token, token_expiry, now) ==
    [exists |-> TRUE, access_token |-> access_token,
     token_expiry |-> token_expiry,
     last_authenticated |-> now, last_validated |-> now]

\* StateManager.get_token_state: dict(row), or None without a row.
GetTokenState(row) == IF row.exists THEN row ELSE PyNone

TokenReturn(i, method, value) ==
    [manager |-> i, method |-> method, outcome |-> "returned",
     value |-> value]

\* TokenManager(state_manager): an instance is built over the store.
NewTokenManager(i) ==
    /\ tm' = [tm EXCEPT ![i] = NoTokenCache]
    /\ tret' = TokenReturn(i, "__init__", PyNone)
    /\ UNCHANGED <<token_state, clock, capVars, handles, stateVars,
                   cacheVars, gosVars, svcVars>>

\* def store_token(self, access_token, expiry_time, expiry_hours): an empty
\* token raises ValueError; otherwise the obfuscated token is stored and the
\* instance caches the token and its expiry.  expiry_time is the caller's,
\* or now + expiry_hours.
TokenStore(i, tokens, expiries) ==
    /\ \E access_token \in tokens, expiry_time \in expiries :
          IF access_token = <<>>
          THEN /\ tret' = [manager |-> i, method |-> "store_token",
                           outcome |-> "raised", value |-> [py |-> "ValueError"]]
               /\ UNCHANGED <<token_state, tm>>
          ELSE /\ token_state' =
                      StoreTokenRow(Obfuscate(access_token), expiry_time, clock)
               /\ tm' = [tm EXCEPT ![i] =
                            [token_cache |-> PyStr(access_token),
                             expiry_cache |-> PyInt(expiry_time)]]
               /\ tret' = TokenReturn(i, "store_token", PyBool(TRUE))
    /\ UNCHANGED <<clock, capVars, handles, stateVars, cacheVars, gosVars,
                   svcVars>>

\* `if self._token_cache and self._expiry_cache`, then
\* `self._expiry_cache > datetime.now()`
CacheIsFresh(cached, now) ==
    /\ cached.token_cache # PyNone
    /\ cached.token_cache.val # <<>>
    /\ cached.expiry_cache # PyNone
    /\ cached.expiry_cache.val > now

\* def get_token(self): the cached token while its expiry is in the future;
\* otherwise the stored row: None without a row, with an empty access_token
\* or with an expiry that has passed, else the deobfuscated token, which is
\* cached with its expiry.
GetTokenValue(cached, row, now) ==
    LET state == GetTokenState(row)
    IN  IF CacheIsFresh(cached, now) THEN cached.token_cache
        ELSE IF state = PyNone \/ state.access_token = <<>> THEN PyNone
        ELSE IF state.token_expiry <= now THEN PyNone
        ELSE PyStr(Deobfuscate(state.access_token))

TokenGet(i) ==
    /\ tret' = TokenReturn(i, "get_token",
                           GetTokenValue(tm[i], token_state, clock))
    /\ IF ~CacheIsFresh(tm[i], clock) /\ tret'.value # PyNone
       THEN tm' = [tm EXCEPT ![i] =
                      [token_cache |-> tret'.value,
                       expiry_cache |-> PyInt(token_state.token_expiry)]]
       ELSE UNCHANGED tm
    /\ UNCHANGED <<token_state, clock, capVars, handles, stateVars,
                   cacheVars, gosVars, svcVars>>

\* def clear_token(self): the instance's cache is emptied and an empty
\* token whose expiry is a day ago is stored.
TokenClear(i) ==
    /\ tm' = [tm EXCEPT ![i] = NoTokenCache]
    /\ token_state' = StoreTokenRow(<<>>, clock - 1, clock)
    /\ tret' = TokenReturn(i, "clear_token", PyBool(TRUE))
    /\ UNCHANGED <<clock, capVars, handles, stateVars, cacheVars, gosVars,
                   svcVars>>

\* def update_last_validated(self): False without a row; otherwise the
\* row's access_token and token_expiry are stored again through
\* StateManager.store_token.
TokenUpdateLastValidated(i) ==
    /\ LET state == GetTokenState(token_state)
       IN  IF state = PyNone
           THEN /\ tret' = TokenReturn(i, "update_last_validated", PyBool(FALSE))
                /\ UNCHANGED token_state
           ELSE /\ token_state' = StoreTokenRow(state.access_token,
                                                state.token_expiry, clock)
                /\ tret' = TokenReturn(i, "update_last_validated",
                                       PyBool(TRUE))
    /\ UNCHANGED <<tm, clock, capVars, handles, stateVars, cacheVars, gosVars,
                   svcVars>>

\* The TokenManager instances of one process use one StateManager, one
\* call after the other, with the tokens '', "A" and "zé" and an expiry at
\* time 1 or 2.
NextTokens ==
    \/ Tick
    \/ \E i \in Managers :
          \/ NewTokenManager(i)
          \/ TokenStore(i, {<<>>, <<65>>, <<122, 233>>}, {1, 2})
          \/ TokenGet(i)
          \/ TokenClear(i)
          \/ TokenUpdateLastValidated(i)

SpecTokens == Init /\ [][NextTokens]_vars

\* One token is stored through m1, any string of at most MaxTokenLen
\* characters, and read back through m1 and through m2, which is built
\* over the same store at any time.
NextObfuscate ==
    \/ Tick
    \/ (~token_state.exists
           /\ TokenStore("m1", TokenStrings(MaxTokenLen), {1, 2}))
    \/ NewTokenManager("m2")
    \/ \E i \in Managers : TokenGet(i)

SpecObfuscate == Init /\ [][NextObfuscate]_vars

\* ------------------------------------------------- historical data service
\* HistoricalDataService.get_historical_data over the cache.  A request
\* (instrument, dates, interval) is named by its cache key; the interval is
\* a valid one.  The broker client and the rate limiter are the objects the
\* service was built with: what they answer is up to them.

\* df.to_dict('records'): the candles of a frame, as a list.
CandleArgs == {PyList(<<PyInt(1)>>), PyList(<<>>)}

\* pd.DataFrame(records)
DataFrame(records) == [py |-> "DataFrame", rows |-> records.items]

\* pd.DataFrame()
EmptyFrame == [py |-> "DataFrame", rows |-> <<>>]

\* `if cached`: None and the empty list are false.
HasCandles(cached) == cached # PyNone /\ cached.items # <<>>

\* pd.DataFrame(cached) if cached else pd.DataFrame()
CachedOrEmpty(cached) ==
    IF HasCandles(cached) THEN DataFrame(cached) ELSE EmptyFrame

ServiceReturn(key, path, value) == [key |-> key, path |-> path, value |-> value]

\* def get_historical_data(self, instrument_key, start_date, end_date,
\* interval, use_cache): the cache key is built from the arguments.
HistoricalCall(t, keys, flags) ==
    /\ hpc = "idle"
    /\ rlock # t
    /\ \E key \in keys, use_cache \in flags :
          /\ hargs' = [key |-> key, use_cache |-> use_cache, rows |-> PyNone]
          /\ hpc' = IF use_cache THEN "check" ELSE "acquire"
    /\ UNCHANGED <<hret, clock, capitalVars, cacheVars, gosVars>>

\* if use_cache: cached = self._cache.get(cache_key); if cached: return
HistoricalCheck(t) ==
    /\ hpc = "check"
    /\ Get(t, {hargs.key})
    /\ IF HasCandles(cret'.value)
       THEN /\ hret' = ServiceReturn(hargs.key, "cache", DataFrame(cret'.value))
            /\ hpc' = "idle"
       ELSE /\ hpc' = "acquire"
            /\ UNCHANGED hret
    /\ UNCHANGED <<hargs, gosVars>>

\* if not self._rate_limiter.acquire(): the limiter grants the call or not.
HistoricalAcquire(t) ==
    /\ hpc = "acquire"
    /\ \E granted \in BOOLEAN :
          hpc' = IF granted THEN "fetch" ELSE "limited"
    /\ UNCHANGED <<hargs, hret, clock, capitalVars, cacheVars, gosVars>>

\* The rate limit is hit: whatever the cache has for the key.
HistoricalLimited(t) ==
    /\ hpc = "limited"
    /\ Get(t, {hargs.key})
    /\ hret' = ServiceReturn(hargs.key, "limited", CachedOrEmpty(cret'.value))
    /\ hpc' = "idle"
    /\ UNCHANGED <<hargs, gosVars>>

\* df = self._client.get_historical_data(...): the client raises, returns
\* an empty frame, which is returned as it is, or returns candles, of which
\* those in the date range are kept.
HistoricalFetch(t, candles) ==
    /\ hpc = "fetch"
    /\ \/ /\ hpc' = "failed"
          /\ UNCHANGED <<hargs, hret>>
       \/ /\ hret' = ServiceReturn(hargs.key, "empty", EmptyFrame)
          /\ hpc' = "idle"
          /\ UNCHANGED hargs
       \/ \E rows \in candles :
             /\ hargs' = [hargs EXCEPT !.rows = rows]
             /\ hpc' = "store"
             /\ UNCHANGED hret
    /\ UNCHANGED <<clock, capitalVars, cacheVars, gosVars>>

\* self._cache.set(cache_key, df.to_dict('records'), ttl): the call of set,
\* whose result is not looked at.
HistoricalStore(t, ttls) ==
    /\ hpc = "store"
    /\ SetCall(t, {hargs.key}, {hargs.rows}, ttls)
    /\ hpc' = "return"
    /\ UNCHANGED <<hargs, hret, gosVars>>

\* return df, once set has returned.
HistoricalDone(t) ==
    /\ hpc = "return"
    /\ rlock # t
    /\ hret' = ServiceReturn(hargs.key, "fetched", DataFrame(hargs.rows))
    /\ hpc' = "idle"
    /\ UNCHANGED <<hargs, clock, capitalVars, cacheVars, gosVars>>

\* except Exception: cached = self._cache.get(cache_key);
\* return pd.DataFrame(cached) if cached else pd.DataFrame()
HistoricalFailed(t) ==
    /\ hpc = "failed"
    /\ Get(t, {hargs.key})
    /\ hret' = ServiceReturn(hargs.key, "failed", CachedOrEmpty(cret'.value))
    /\ hpc' = "idle"
    /\ UNCHANGED <<hargs, gosVars>>

\* One caller makes the same request again and again, with a cache TTL of
\* one tick.
NextService ==
    \/ CacheTick
    \/ \E t \in SeqThreads :
          \/ (calls < MaxCalls
                /\ HistoricalCall(t, {"k1"}, BOOLEAN))
          \/ HistoricalCheck(t)
          \/ HistoricalAcquire(t)
          \/ HistoricalLimited(t)
          \/ HistoricalFetch(t, CandleArgs)
          \/ HistoricalStore(t, {1})
          \/ (CleanupExpired(t) /\ UNCHANGED <<gosVars, svcVars>>)
          \/ (SetInsert(t) /\ UNCHANGED <<gosVars, svcVars>>)
          \/ HistoricalDone(t)
          \/ HistoricalFailed(t)

SpecService == Init /\ [][NextService]_vars

\* ----------------------------------------------------------- storage faults
\* The public methods of StateManager that the model calls.
StateMethods == {"set", "get", "delete", "log_order_action",
                 "get_or_create_session", "update_session_pnl",
                 "initialize_capital", "adjust_capital"}

\* The statements of those methods that run inside their try block.
StatementPcs == {"set_insert", "get_select", "delete_exec", "log_insert",
                 "ses_select", "ses_insert", "ses_reselect", "pnl_update"}

\* What the `except sqlite3.Error` handler of each method returns.
FailureValue(method, default) ==
    CASE method = "get" -> default
      [] method = "get_or_create_session" -> PyMapping({})
      [] OTHER -> PyBool(FALSE)

\* sqlite3.connect raises sqlite3.OperationalError (the file cannot be
\* opened).  Every public method calls self._get_connection() before its
\* try block, so no handler of the method sees the exception and no
\* connection exists to be closed.
ConnectFault(t, methods) ==
    /\ spc[t] = "idle"
    /\ pc[t] = "idle"
    /\ \E method \in methods :
          sret' = [caller |-> t, method |-> method, outcome |-> "raised",
                   value |-> [py |-> "OperationalError"]]
    /\ UNCHANGED <<app_state, sessions, audit, handles, spc, sargs, swritten>>
    /\ UNCHANGED <<clock, capVars, cacheVars, gosVars, tokenVars, svcVars>>

\* A statement or the commit of a running call raises sqlite3.Error:
\* the handler returns the method's failure value, finally: conn.close()
\* and nothing of the call is committed.
StatementFault(t) ==
    /\ spc[t] \in StatementPcs
    /\ StateReturn(t, FailureValue(sargs[t].method, sargs[t].default))
    /\ UNCHANGED <<app_state, sessions, audit, swritten>>
    /\ UNCHANGED <<clock, capVars, cacheVars, gosVars, tokenVars, svcVars>>

\* sqlite3.connect raises inside get_capital_state, which
\* get_or_create_session calls inside its try block: its handler returns {}.
SessionCapitalConnectFault(t) ==
    /\ spc[t] = "ses_capital"
    /\ StateReturn(t, PyMapping({}))
    /\ UNCHANGED <<app_state, sessions, audit, swritten>>
    /\ UNCHANGED <<clock, capVars, cacheVars, gosVars, tokenVars, svcVars>>

\* The SELECT of get_capital_state raises sqlite3.Error: get_capital_state
\* returns None after closing its connection, and starting_capital is 0.
SessionCapitalStatementFault(t) ==
    /\ spc[t] = "ses_capital_select"
    /\ handles' = handles - 1
    /\ sargs' = [sargs EXCEPT ![t].starting_capital = 0]
    /\ spc' = [spc EXCEPT ![t] = "ses_insert"]
    /\ UNCHANGED <<app_state, sessions, audit, sret, swritten>>
    /\ UNCHANGED <<clock, capVars, cacheVars, gosVars, tokenVars, svcVars>>

\* A statement or the commit of initialize_capital or adjust_capital raises
\* sqlite3.Error: return False, and closing the connection rolls back.
CapitalStatementFault(t) ==
    /\ pc[t] # "idle"
    /\ lock \in {NoLock, t}
    /\ CloseWithoutCommit
    /\ Return(t, FALSE, "storage_error")
    /\ UNCHANGED <<clock, cacheVars, gosVars, stateVars, tokenVars, svcVars>>

CacheOps == {"set", "get", "delete", "clear", "get_stats"}

\* What the `except sqlite3.Error` handler of each cache method returns.
CacheFailureValue(op) ==
    CASE op \in {"set", "delete"} -> PyBool(FALSE)
      [] op = "get" -> PyNone
      [] op = "clear" -> PyInt(0)
      [] op = "get_stats" -> PyMapping({})

\* sqlite3.connect raises in a cache method: conn = self._get_connection()
\* stands inside `with self._lock:` and before the try block, so the lock
\* is released and the exception reaches the caller.
CacheConnectFault(t, ops) ==
    /\ rlock = NoLock
    /\ \E op \in ops :
          cret' = CacheReturn(op, "k1", [py |-> "OperationalError"])
    /\ calls' = calls + 1
    /\ UNCHANGED <<cache, cache_stats, last_cleanup, rlock, cpc, cargs,
                   written, last_sweep>>
    /\ UNCHANGED <<clock, capitalVars>>

\* A statement or the commit of a cache method raises sqlite3.Error: the
\* handler returns the method's failure value and nothing is committed.
CacheStatementFault(t, ops) ==
    /\ rlock = NoLock
    /\ \E op \in ops : cret' = CacheReturn(op, "k1", CacheFailureValue(op))
    /\ calls' = calls + 1
    /\ UNCHANGED <<cache, cache_stats, last_cleanup, rlock, cpc, cargs,
                   written, last_sweep>>
    /\ UNCHANGED <<clock, capitalVars>>

\* One caller uses every modelled method of the StateManager while the
\* storage can fail at any step.
NextHandles ==
    \E t \in SeqThreads :
       \/ StateSetCall(t, {"s1"}, {PyDict("v1")})
       \/ StateSetInsert(t)
       \/ StateGetCall(t, {"s1"}, DefaultArgs)
       \/ StateGetSelect(t)
       \/ StateDeleteCall(t, {"s1"})
       \/ StateDeleteExec(t)
       \/ (Len(audit) < MaxAudit
             /\ LogCall(t, {PyStr("PLACE")}, InstrumentArgs,
                        {PyNone, PyDict("v1")}))
       \/ LogInsert(t)
       \/ SessionCall(t, {"d1"})
       \/ SessionSelect(t)
       \/ SessionCapitalCall(t)
       \/ SessionCapitalSelect(t)
       \/ SessionInsert(t)
       \/ SessionReselect(t)
       \/ UpdateSessionPnlCall(t, PnlArgs, {"d1"})
       \/ UpdateSessionPnl(t)
       \/ (spc[t] = "idle" /\ Len(ledger) < MaxLedger
             /\ InitializeCall(t, SessionAmounts))
       \/ InitializeSelect(t)
       \/ InitializeInsertState(t)
       \/ InitializeInsertLedger(t)
       \/ InitializeCommit(t)
       \/ (spc[t] = "idle" /\ Len(ledger) < MaxLedger
             /\ AdjustCall(t, SessionAmounts, SessionTypeArgs))
       \/ AdjustSelect(t)
       \/ AdjustUpdate(t)
       \/ AdjustInsert(t)
       \/ AdjustCommit(t)
       \/ ConnectFault(t, StateMethods)
       \/ StatementFault(t)
       \/ SessionCapitalConnectFault(t)
       \/ SessionCapitalStatementFault(t)
       \/ CapitalStatementFault(t)

SpecHandles == Init /\ [][NextHandles]_vars

\* One caller uses both stores while the storage can fail at any step.
NextFaults ==
    \E t \in SeqThreads :
       \/ StateSetCall(t, {"s1"}, {PyDict("v1")})
       \/ StateSetInsert(t)
       \/ StateGetCall(t, {"s1"}, DefaultArgs)
       \/ StateGetSelect(t)
       \/ StateDeleteCall(t, {"s1"})
       \/ StateDeleteExec(t)
       \/ (Len(audit) < MaxAudit
             /\ LogCall(t, {PyStr("PLACE")}, {PyStr("NIFTY")},
                        {PyNone, PyDict("v1")}))
       \/ LogInsert(t)
       \/ ConnectFault(t, {"set", "get", "delete", "log_order_action"})
       \/ StatementFault(t)
       \/ (calls < MaxCalls /\ CacheConnectFault(t, CacheOps)
             /\ UNCHANGED <<gosVars, svcVars>>)
       \/ (calls < MaxCalls /\ CacheStatementFault(t, CacheOps)
             /\ UNCHANGED <<gosVars, svcVars>>)

SpecFaults == Init /\ [][NextFaults]_vars


\* ================================================================ claims
Returns(t) == pc[t] # "idle" /\ pc'[t] = "idle"

\* C1: whenever the capital_state row exists, current_capital >= 0.
C1_CapitalNeverNegative ==
    cap.exists => cap.current_capital >= 0

\* C2: an adjust_capital call whose resulting current_capital would be
\* negative returns false and leaves the capital_state row and the ledger
\* exactly as they were.
C2_NegativeAdjustmentRejected ==
    [][\A t \in Threads :
          ( /\ pc[t] = "adj_select"
            /\ pc'[t] # "adj_select"
            /\ cap.exists
            /\ NewCapital(cap.current_capital,
                          args[t].amount, args[t].type) < 0 )
          => /\ pc'[t] = "idle"
             /\ ret' = [caller |-> t, value |-> FALSE]
             /\ cap' = cap
             /\ ledger' = ledger]_vars

C2_Witness ==
    /\ cap.exists
    /\ cap.current_capital > 0
    /\ log = "negative_capital"
    /\ ret.value = FALSE

\* C3: the committed tables never show the singleton row updated without
\* the matching ledger row or a ledger row without the matching update (the
\* newest ledger row carries the row's current_capital and last_updated),
\* and a call that returns false has changed neither table.
C3_StateMatchesLedger ==
    /\ cap.exists <=> ledger # <<>>
    /\ cap.exists =>
         /\ Last(ledger).new_capital = cap.current_capital
         /\ Last(ledger).timestamp = cap.last_updated

C3_AdjustmentIsAtomic ==
    [][ /\ C3_StateMatchesLedger'
        /\ \A t \in Threads :
              (Returns(t) /\ ret'.value = FALSE)
              => (cap' = cap /\ ledger' = ledger) ]_vars

C3_Witness ==
    /\ cap.exists
    /\ log = "adjust_error_check"
    /\ ret.value = FALSE

\* C4: whenever the capital_state row exists,
\* available_capital = current_capital - allocated_capital.
C4_AvailableIsCurrentMinusAllocated ==
    cap.exists =>
       cap.available_capital = cap.current_capital - cap.allocated_capital

\* C5: a successful adjust_capital(amount, type) sets current_capital, and
\* the new_capital of the row it appends, to previous + |amount| for DEPOSIT
\* and TRADE_PROFIT, previous - |amount| for WITHDRAWAL and TRADE_LOSS and
\* previous + amount for MANUAL_ADJUSTMENT, previous being the
\* current_capital before the call, which the row records as
\* previous_capital.
SignedDelta(amount, type) ==
    CASE type \in {"DEPOSIT", "TRADE_PROFIT"}  -> Abs(amount)
      [] type \in {"WITHDRAWAL", "TRADE_LOSS"} -> 0 - Abs(amount)
      [] type = "MANUAL_ADJUSTMENT"            -> amount

C5_SignConvention ==
    [][\A t \in Threads :
          ( /\ pc[t] = "adj_commit"
            /\ Returns(t)
            /\ ret'.value = TRUE
            /\ args[t].type \in {"DEPOSIT", "TRADE_PROFIT", "WITHDRAWAL",
                                 "TRADE_LOSS", "MANUAL_ADJUSTMENT"} )
          => LET expected == cap.current_capital
                               + SignedDelta(args[t].amount, args[t].type)
             IN  /\ cap'.current_capital = expected
                 /\ Len(ledger') = Len(ledger) + 1
                 /\ Last(ledger').new_capital = expected
                 /\ Last(ledger').previous_capital = cap.current_capital
                 /\ Last(ledger').amount = args[t].amount
                 /\ Last(ledger').adjustment_type = args[t].type]_vars

C5_Witness ==
    /\ log = "adjusted"
    /\ ret.value = TRUE
    /\ Len(ledger) >= 2
    /\ Last(ledger).adjustment_type = "TRADE_LOSS"
    /\ Last(ledger).amount < 0
    /\ Last(ledger).new_capital < Last(ledger).previous_capital

\* C6: the ledger is an unbroken chain: the oldest row has
\* previous_capital = 0, each later row's previous_capital is the preceding
\* row's new_capital, and the newest row's new_capital is current_capital.
C6_LedgerChain ==
    ledger # <<>> =>
       /\ ledger[1].previous_capital = 0
       /\ \A i \in 2..Len(ledger) :
             ledger[i].previous_capital = ledger[i-1].new_capital
       /\ cap.exists
       /\ Last(ledger).new_capital = cap.current_capital

C6_Witness ==
    /\ Len(ledger) = 2
    /\ ledger[1].new_capital # 0
    /\ ledger[2].new_capital # ledger[1].new_capital

\* C7: concurrent adjust_capital calls lose no update: current_capital is
\* the starting capital plus the signed delta of every adjustment that
\* returned true, and the rows of those adjustments chain.
RECURSIVE SumOfDeltas(_)
SumOfDeltas(rows) ==
    IF rows = <<>> THEN 0
    ELSE (rows[1].new_capital - rows[1].previous_capital)
           + SumOfDeltas(Tail(rows))

C7_NoLostUpdate ==
    cap.exists =>
       /\ cap.current_capital = SumOfDeltas(ledger)
       /\ \A i \in 2..Len(ledger) :
             ledger[i].previous_capital = ledger[i-1].new_capital

\* C8: once initialize_capital has succeeded, every later initialize_capital
\* call returns false and leaves the capital_state row and the ledger
\* unchanged; the row stays and keeps its initial_capital.
C8_ReinitializationRejected ==
    [][ /\ \A t \in Threads :
              (pc[t] = "init_select" /\ pc'[t] # "init_select" /\ cap.exists)
              => /\ pc'[t] = "idle"
                 /\ ret' = [caller |-> t, value |-> FALSE]
                 /\ cap' = cap
                 /\ ledger' = ledger
        /\ cap.exists =>
              /\ cap'.exists
              /\ cap'.initial_capital = cap.initial_capital ]_vars

C8_Witness ==
    /\ cap.exists
    /\ log = "already_initialized"
    /\ ret.value = FALSE

\* C9: a successful initialize_capital(c) on an uninitialized store creates
\* the row with current = initial = available = c and allocated = 0, and
\* appends exactly one ledger row: INITIAL_SETUP, amount c, previous 0,
\* new c.
C9_InitializeWrites ==
    [][\A t \in Threads :
          (pc[t] = "init_commit" /\ Returns(t) /\ ret'.value = TRUE)
          => LET c == args[t].amount IN
             /\ ~cap.exists
             /\ cap' = [exists            |-> TRUE,
                        current_capital   |-> c,
                        initial_capital   |-> c,
                        allocated_capital |-> 0,
                        available_capital |-> c,
                        last_updated      |-> args[t].now]
             /\ ledger' = Append(ledger,
                            [timestamp        |-> args[t].now,
                             adjustment_type  |-> "INITIAL_SETUP",
                             amount           |-> c,
                             previous_capital |-> 0,
                             new_capital      |-> c])]_vars

C9_Witness ==
    /\ log = "initialized"
    /\ ret.value = TRUE
    /\ cap.exists
    /\ cap.initial_capital # 0
    /\ Len(ledger) = 1

\* C10: the ledger is append-only: every step keeps the rows it had with
\* the same field values, a call that returns true has added exactly one
\* row and a call that returns false has added none.
C10_LedgerAppendOnly ==
    [][ /\ IsPrefix(ledger, ledger')
        /\ Len(ledger') <= Len(ledger) + 1
        /\ \A t \in Threads :
              Returns(t) =>
                 Len(ledger') = Len(ledger) + (IF ret'.value THEN 1 ELSE 0)
        /\ (Len(ledger') = Len(ledger) + 1) =>
              \E t \in Threads : Returns(t) /\ ret'.value = TRUE ]_vars

C10_Witness ==
    /\ Len(ledger) = 2
    /\ ledger[1].adjustment_type = "INITIAL_SETUP"
    /\ ledger[2].adjustment_type # "INITIAL_SETUP"
    /\ ret.value = TRUE
    /\ log = "adjusted"

\* C11: an adjust_capital call whose adjustment_type is not one of the six
\* values (a missing type included) returns false and leaves the
\* capital_state row and the ledger as they were, so every ledger row
\* carries one of the six values.
C11_InvalidTypeRejected ==
    [][ /\ \A t \in Threads :
              (/\ pc[t] \in {"adj_select", "adj_update",
                              "adj_insert", "adj_commit"}
               /\ pc'[t] = "idle"
               /\ args[t].type \notin AdjustmentTypes) =>
                 /\ ret'.value = FALSE
                 /\ cap' = cap
                 /\ ledger' = ledger
        /\ \A i \in 1..Len(ledger') :
              ledger'[i].adjustment_type \in AdjustmentTypes ]_vars

\* ---------------------------------------------------------- cache claims
\* A get, delete, clear or get_stats call, or the construction of a new
\* instance, runs in one step.
CacheCalled(op) ==
    /\ calls' = calls + 1
    /\ cpc' = "idle"
    /\ cret'.op = op

\* The last step of a set call, and the step that runs a sweep.
SetReturns == cpc = "insert" /\ cpc' = "idle"
Sweeps     == cpc = "cleanup" /\ cpc' = "insert"

\* C12: a get at time now never returns the value of a row whose
\* expires_at <= now, whether or not a sweep has removed the row: it
\* returns None.
C12_GetNeverReturnsExpired ==
    [][ \A key \in CacheKeyArgs :
           (CacheCalled("get") /\ cret'.key = key) =>
              LET row == cache[GenerateKey(key)]
              IN  (row.present /\ row.expires_at <= clock) =>
                     cret'.value = PyNone ]_vars

\* A get has just returned None for a row that was live once, has expired
\* and is still stored.
C12_Witness ==
    /\ cpc = "idle"
    /\ cret.op = "get"
    /\ cret.value = PyNone
    /\ LET row == cache[GenerateKey(cret.key)]
       IN  /\ row.present
           /\ row.expires_at > row.created_at
           /\ row.expires_at <= cache_stats.last_updated
           /\ cache_stats.last_updated = clock

\* C13: after a set(k, v, t) that stored v at time c, with no later set,
\* delete or clear of k, a get(k) at a time strictly before c + t returns
\* v and a get(k) at or after c + t returns None.
C13_TtlBoundary ==
    [][ \A key \in CacheKeyArgs :
           (CacheCalled("get") /\ cret'.key = key) =>
              LET w == written[GenerateKey(key)]
              IN  w.present =>
                     cret'.value = IF clock < w.at + w.ttl
                                   THEN w.value ELSE PyNone ]_vars

\* A get at exactly c + t has just returned None, after an earlier get of
\* the same set had returned the value.
C13_Witness ==
    /\ cpc = "idle"
    /\ cret.op = "get"
    /\ cret.value = PyNone
    /\ cache_stats.last_updated = clock
    /\ cache_stats.total_hits = 1
    /\ cache_stats.total_sets = 1
    /\ calls = 3
    /\ LET w == written[GenerateKey(cret.key)]
       IN  /\ w.present
           /\ w.ttl > 0
           /\ clock = w.at + w.ttl

\* C14: every get increases total_hits by exactly 1 when a live row for
\* the key exists and otherwise increases total_misses by exactly 1, never
\* both and never neither; no other step changes either counter, so
\* total_hits + total_misses is the number of get calls made.
C14_GetCountedOnce ==
    [][ /\ \A key \in CacheKeyArgs :
              (CacheCalled("get") /\ cret'.key = key) =>
                 LET row == cache[GenerateKey(key)]
                     hit == row.present /\ row.expires_at > clock
                 IN  /\ cache_stats'.total_hits =
                           cache_stats.total_hits + (IF hit THEN 1 ELSE 0)
                     /\ cache_stats'.total_misses =
                           cache_stats.total_misses + (IF hit THEN 0 ELSE 1)
        /\ ~CacheCalled("get") =>
              /\ cache_stats'.total_hits = cache_stats.total_hits
              /\ cache_stats'.total_misses = cache_stats.total_misses ]_vars

\* Two gets have been made: the first was a hit, the second a miss on a
\* row that is stored but expired.
C14_Witness ==
    /\ cpc = "idle"
    /\ calls = 3
    /\ cret.op = "get"
    /\ cret.value = PyNone
    /\ cache_stats.total_hits = 1
    /\ cache_stats.total_misses = 1
    /\ cache[GenerateKey(cret.key)].present
    /\ cache[GenerateKey(cret.key)].access_count = 1

\* C15 as stated: every set call increases total_sets by exactly 1, so
\* total_sets is the number of set calls made.
C15_EverySetCounted ==
    [][ /\ SetReturns => cache_stats'.total_sets = cache_stats.total_sets + 1
        /\ ~SetReturns => cache_stats'.total_sets = cache_stats.total_sets
      ]_vars

\* C15: a set call that returns true increases total_sets by exactly 1, a
\* set call that returns false leaves it as it was and no other step
\* changes it, so total_sets is the number of set calls that returned true.
C15_SuccessfulSetCounted ==
    [][ /\ SetReturns =>
              /\ cret'.op = "set"
              /\ cache_stats'.total_sets = cache_stats.total_sets +
                    (IF cret'.value = PyBool(TRUE) THEN 1 ELSE 0)
        /\ ~SetReturns => cache_stats'.total_sets = cache_stats.total_sets
      ]_vars

\* Two set calls have returned, the last one false: total_sets is 1.
C15_Witness ==
    /\ cpc = "idle"
    /\ calls = 2
    /\ cret.op = "set"
    /\ cret.value = PyBool(FALSE)
    /\ cache_stats.total_sets = 1

\* C16: each sweep increases total_evictions by exactly the number of rows
\* it deleted, and no other step (a set that overwrites, delete, clear)
\* changes it, so total_evictions is the number of rows removed by sweeps.
C16_EvictionsCountSweptRows ==
    [][ /\ Sweeps =>
              cache_stats'.total_evictions = cache_stats.total_evictions +
                 Cardinality({k \in StoredKeys :
                                 cache[k].present /\ ~cache'[k].present})
        /\ ~Sweeps =>
              cache_stats'.total_evictions = cache_stats.total_evictions
      ]_vars

\* A sweep has just removed two rows at once.
C16_Witness ==
    /\ cpc = "insert"
    /\ cache_stats.total_evictions = 2
    /\ cache_stats.total_sets = 2
    /\ cache_stats.last_updated = clock
    /\ \A k \in CacheKeyArgs : ~cache[k].present /\ written[k].present
                                  /\ written[k].at < clock

\* C17: total_hits, total_misses, total_sets and total_evictions never
\* decrease: no call, clear and the construction of a new instance on the
\* same file included, lowers or resets any of them.
C17_CountersNeverDecrease ==
    [][ /\ cache_stats'.total_hits >= cache_stats.total_hits
        /\ cache_stats'.total_misses >= cache_stats.total_misses
        /\ cache_stats'.total_sets >= cache_stats.total_sets
        /\ cache_stats'.total_evictions >= cache_stats.total_evictions
      ]_vars

\* clear has just removed a row and the counters still hold what was
\* counted before it.
C17_Witness ==
    /\ cret.op = "clear"
    /\ cret.value = PyInt(1)
    /\ cache_stats.total_sets = 1
    /\ cache_stats.total_hits = 1
    /\ \A k \in StoredKeys : ~cache[k].present

\* C18: a sweep runs at most once per cleanup interval: it runs only
\* inside a set call, and only when that call was made more than
\* CleanupInterval after the set call that ran the instance's previous
\* sweep (or after the construction of the instance).  The time of a set
\* call is the time it reads on entry, in _maybe_cleanup.
C18_SweepAtMostOncePerInterval ==
    [][ Sweeps =>
           /\ rlock \in Threads
           /\ cargs.now - last_sweep > CleanupInterval ]_vars

\* After a sweep that removed a row, a set call made exactly
\* CleanupInterval later is running without having swept, although an
\* expired row is stored.
C18_Witness ==
    /\ cpc = "insert"
    /\ calls = 3
    /\ cache_stats.total_evictions = 1
    /\ cargs.now = last_sweep + CleanupInterval
    /\ last_cleanup = last_sweep
    /\ \E k \in StoredKeys :
          cache[k].present /\ cache[k].expires_at <= cargs.now

\* C19: a sweep at time now removes exactly the rows with
\* expires_at <= now and leaves every other row as it was, so no such row
\* remains; get and get_stats apply the same test at their own now: a get
\* returns a value only for a row with expires_at > now, and
\* expired_entries counts exactly the rows with expires_at <= now.
C19_SweepRemovesExactlyExpired ==
    [][ /\ Sweeps =>
              \A k \in StoredKeys :
                 cache'[k] = IF cache[k].present /\ cache[k].expires_at <= clock
                             THEN NoEntry ELSE cache[k]
        /\ \A key \in CacheKeyArgs :
              (CacheCalled("get") /\ cret'.key = key /\ cret'.value # PyNone) =>
                 /\ cache[GenerateKey(key)].present
                 /\ cache[GenerateKey(key)].expires_at > clock
        /\ CacheCalled("get_stats") =>
              cret'.value.expired_entries =
                 Cardinality({k \in StoredKeys :
                                 cache[k].present /\ cache[k].expires_at <= clock})
      ]_vars

\* A sweep has just removed the expired row of one key and kept the live
\* row of the other.
C19_Witness ==
    /\ cpc = "insert"
    /\ calls = 3
    /\ cache_stats.total_sets = 2
    /\ cache_stats.total_evictions = 1
    /\ cache_stats.last_updated = clock
    /\ \A k \in CacheKeyArgs : written[k].present /\ written[k].at < clock
    /\ \E k \in StoredKeys : cache[k].present /\ cache[k].expires_at > clock
    /\ \E k \in StoredKeys : ~cache[k].present

\* C20: set overwrites unconditionally: when a set(k, v2, t2) returns true
\* at time c2, the row of k holds v2, expires at c2 + t2 and has
\* access_count 0 and no last_accessed, whatever row k had before, and a
\* following get(k) before that expiry returns v2.
C20_SetOverwrites ==
    [][ /\ (SetReturns /\ cret'.value = PyBool(TRUE)) =>
              LET row == cache'[GenerateKey(cargs.key)]
              IN  /\ row.present
                  /\ Loads(row.value) = cargs.value
                  /\ row.created_at = clock
                  /\ row.expires_at = clock + cargs.ttl_seconds
                  /\ row.access_count = 0
                  /\ row.last_accessed = NullTime
        /\ \A key \in CacheKeyArgs :
              (CacheCalled("get") /\ cret'.key = key) =>
                 LET w == written[GenerateKey(key)]
                 IN  (w.present /\ clock < w.at + w.ttl) =>
                        cret'.value = w.value ]_vars

\* A key was set, read once and set again with the second payload: its row
\* holds the second payload and has not been read.
C20_Witness ==
    /\ cpc = "idle"
    /\ calls = 3
    /\ cret = CacheReturn("set", "k1", PyBool(TRUE))
    /\ cache_stats.total_sets = 2
    /\ cache_stats.total_hits = 1
    /\ ~written[GenerateKey("k2")].present
    /\ cache[GenerateKey("k1")].present
    /\ cache[GenerateKey("k1")].value = Dumps(PyDict("v2"))
    /\ cache[GenerateKey("k1")].access_count = 0
    /\ cache[GenerateKey("k1")].last_accessed = NullTime

\* Scalars, sequences, mappings and None.
Representable(value) ==
    value.py \in {"NoneType", "bool", "int", "str", "list", "tuple", "dict"}

\* C21: for every representable value v, a set(k, v, ttl) that returns
\* true followed by a get(k) before expiry returns a value equal to v.
C21_RoundTrip ==
    [][ \A key \in CacheKeyArgs :
           (CacheCalled("get") /\ cret'.key = key) =>
              LET w == written[GenerateKey(key)]
              IN  (w.present /\ clock < w.at + w.ttl
                             /\ Representable(w.value)) =>
                     cret'.value = w.value ]_vars


\* C22: get_or_set(k, factory, ttl): when a live row for k exists the factory
\* is not invoked and the row's value is returned; on a miss the factory is
\* invoked exactly once; if the factory raises, the call returns absent and
\* the row for k is unchanged; if the factory returns a value, a live row
\* for k holding that value with the given ttl exists when the call returns.
C22_GetOrSet ==
    [][ \A t \in Threads :
           LET k   == GenerateKey(gargs[t].key)
               row == cache[k]
               live == row.present /\ row.expires_at > clock
           IN  /\ (gpc[t] = "get" /\ gpc'[t] # "get" /\ live) =>
                     /\ gpc'[t] = "idle"
                     /\ invoked'[t] = 0
                     /\ gret' = GetOrSetReturn(t, gargs[t].key,
                                               Loads(row.value))
               /\ (gpc[t] = "get" /\ gpc'[t] # "get" /\ ~live) =>
                     gpc'[t] = "factory"
               /\ (gpc[t] = "factory" /\ gpc'[t] # "factory") =>
                     invoked'[t] = 1
               /\ (gpc[t] = "factory" /\ gpc'[t] # "factory"
                      /\ gargs[t].factory.outcome = "raises") =>
                     /\ gpc'[t] = "idle"
                     /\ gret' = GetOrSetReturn(t, gargs[t].key, PyNone)
                     /\ cache'[k] = row
               /\ (gpc[t] = "return" /\ gpc'[t] = "idle") =>
                     /\ invoked'[t] = 1
                     /\ gret' = GetOrSetReturn(t, gargs[t].key,
                                               gargs[t].value)
                     /\ cache'[k].present
                     /\ Loads(cache'[k].value) = gargs[t].value
                     /\ cache'[k].expires_at
                           = cache'[k].created_at + gargs[t].ttl_seconds
                     /\ cache'[k].expires_at > clock' ]_vars


\* The part of the instance that calls read and write.
StoreState == <<cache, cache_stats, last_cleanup, cret, calls>>

\* C23 as stated: every public method, get_or_set included, is atomic: once
\* a thread's call has taken its first step and until it takes its last, no
\* step of another call takes effect on the instance.
C23_EveryCallAtomic ==
    [][ \A t \in Threads :
           ( /\ rlock = t \/ gpc[t] \in {"factory", "set", "return"}
             /\ gpc'[t] = gpc[t]
             /\ ~(rlock = t /\ cpc' # cpc) )
           => StoreState' = StoreState ]_vars

\* C23, amended: set, get, delete, clear and get_stats are atomic, each
\* running under self._lock from its first step to its last: while a thread
\* holds the lock no other call starts, reads or writes.  get_or_set is the
\* exception: it is a get followed by a set, each atomic by itself, with
\* the lock free in between.
C23_LockedCallsAtomic ==
    [][ \A t \in Threads :
           (rlock = t /\ cpc' = cpc) => StoreState' = StoreState ]_vars

C23_Witness ==
    /\ rlock = "t1"
    /\ cpc = "cleanup"
    /\ cache["k1"].present
    /\ gpc["t2"] = "get"


Counters(stats) == <<stats.total_hits, stats.total_misses, stats.total_sets,
                     stats.total_evictions>>

\* C24: delete(k) returns true exactly when a row for k, live or expired but
\* not yet swept, existed, and removes it, so that a get of k afterwards is a
\* miss; clear() removes every row and returns how many rows there were,
\* live and expired, so that total_entries is 0 afterwards; neither changes
\* a row of another key other than by removing it, nor a statistics counter.
C24_DeleteAndClear ==
    [][ /\ \A key \in CacheKeyArgs :
             (CacheCalled("delete") /\ cret'.key = key) =>
                LET k == GenerateKey(key)
                IN  /\ cret'.value = PyBool(cache[k].present)
                    /\ ~cache'[k].present
                    /\ \A other \in StoredKeys \ {k} :
                          cache'[other] = cache[other]
                    /\ Counters(cache_stats') = Counters(cache_stats)
        /\ CacheCalled("clear") =>
             /\ cret'.value
                   = PyInt(Cardinality({k \in StoredKeys : cache[k].present}))
             /\ \A k \in StoredKeys : ~cache'[k].present
             /\ StatsDict(cache', cache_stats', clock').total_entries = 0
             /\ Counters(cache_stats') = Counters(cache_stats) ]_vars

C24_Witness ==
    /\ cret = CacheReturn("delete", "k1", PyBool(TRUE))
    /\ ~cache["k1"].present
    /\ cache["k2"].present
    /\ cache["k2"].expires_at <= clock
    /\ cache_stats.total_sets = 2


\* What get(key) returns for a key stored verbatim.
Visible(rows, key, now) ==
    IF rows[key].present /\ rows[key].expires_at > now
    THEN Loads(rows[key].value)
    ELSE PyNone

\* The step belongs to a set, a delete or a get_or_set on the key.
StepOn(key) ==
    \/ cpc' # cpc /\ cargs'.key = key
    \/ CacheCalled("delete") /\ cret'.key = key
    \/ \E t \in Threads : gpc'[t] # gpc[t] /\ gargs'[t].key = key

C28_CreatedAtPreserved ==
    [][ /\ \A k \in StateKeyArgs :
             /\ app_state'[k].present = swritten'[k].present
             /\ app_state'[k].present =>
                   /\ app_state'[k].created_at = swritten'[k].first_at
                   /\ app_state'[k].updated_at = swritten'[k].last_at
        /\ \A t \in Threads :
             (spc[t] = "get_select" /\ spc'[t] = "idle") =>
                LET w == swritten[sargs[t].key]
                IN  /\ sret'.outcome = "returned"
                    /\ sret'.value = IF w.present THEN w.value
                                     ELSE sargs[t].default ]_vars

C28_Witness ==
    /\ sret.method = "get"
    /\ sret.value = PyDict("v2")
    /\ app_state["s1"].present
    /\ app_state["s1"].created_at = 0
    /\ app_state["s1"].updated_at = 1
    /\ swritten["s1"].value = PyDict("v2")
    /\ ~app_state["s2"].present

\* C30: log_order_action never raises: it returns true having appended
\* exactly one row to the order audit log, or false having appended none
\* (action or instrument missing, details that cannot be serialized); and
\* no operation modifies or deletes an audit row that exists.
C30_LogNeverRaises ==
    [][ /\ IsPrefix(audit, audit')
        /\ \A t \in Threads :
             (spc[t] = "log_insert" /\ spc'[t] = "idle") =>
                /\ sret'.outcome = "returned"
                /\ \/ sret'.value = PyBool(TRUE)
                         /\ Len(audit') = Len(audit) + 1
                   \/ sret'.value = PyBool(FALSE) /\ audit' = audit ]_vars

\* A get_or_create_session call of thread t returns in this step.
SessionReturns(t) ==
    /\ sargs[t].method = "get_or_create_session"
    /\ spc[t] # "idle"
    /\ spc'[t] = "idle"

\* C29: get_or_create_session is idempotent per date: there is at most one
\* session row per date and every call for the date returns it; a repeated
\* call does not reset what was written to the row since its creation; and
\* starting_capital stays the current_capital read at creation (0 when the
\* capital was not initialized), whatever happens to the capital later.
C29_SessionIdempotent ==
    [][ /\ \A t \in Threads :
             SessionReturns(t) =>
                /\ sessions'[sargs[t].date].present
                /\ sret'.value = PySession(sessions'[sargs[t].date])
        /\ \A t \in Threads :
             (spc[t] = "ses_select" /\ spc'[t] # "ses_select"
                /\ sessions[sargs[t].date].present) =>
                sessions' = sessions
        /\ \A t \in Threads :
             (spc[t] = "ses_insert" /\ spc'[t] = "ses_reselect") =>
                sessions'[sargs[t].date].starting_capital
                   = sargs[t].starting_capital
        /\ \A d \in DateArgs :
             sessions[d].present =>
                /\ sessions'[d].present
                /\ sessions'[d].id = sessions[d].id
                /\ sessions'[d].starting_capital
                      = sessions[d].starting_capital ]_vars

\* C26: both stores are no-throw boundaries: a storage fault at any step
\* of a public call (opening the handle, executing a statement,
\* committing) makes the method return its failure value; no call of
\* CacheManager or StateManager ends with an exception.
C26_NoThrow ==
    [][ /\ sret' # sret => sret'.outcome = "returned"
        /\ cret' # cret => cret'.value.py # "OperationalError" ]_vars

\* No public call of the StateManager is in progress.
NoStateCall == \A t \in Threads : spc[t] = "idle" /\ pc[t] = "idle"

\* C27: every StateManager operation releases every storage handle it
\* opened on all exit paths (success, validation failure, storage error):
\* whenever no public call is in progress the number of open handles is
\* zero, also after get_or_create_session, which opens a second handle
\* through get_capital_state.
C27_HandlesReleased ==
    /\ handles >= 0
    /\ NoStateCall => handles = 0

C27_Witness ==
    /\ NoStateCall
    /\ handles = 0
    /\ sret.method = "get_or_create_session"
    /\ sret.outcome = "returned"
    /\ sessions["d1"].present
    /\ sessions["d1"].starting_capital = 1
    /\ sret.value = PySession(sessions["d1"])

\* C33: concurrent get_or_set calls for the same absent key are not
\* de-duplicated (both may invoke their factory: the witness); whenever the
\* set of such a call completes, the key's row is the one that set wrote
\* (its value, written at its time with its ttl) whatever the other call's
\* set had written before, so the cache ends with one row for the key
\* holding the value of the set that executed last.
C33_LastSetWins ==
    [][ \A t \in Threads :
           (/\ gpc[t] = "return"
            /\ rlock = t
            /\ rlock' # t
            /\ cret'.value = PyBool(TRUE)) =>
              LET k == GenerateKey(gargs[t].key)
              IN  /\ cache'[k] = CacheRow(Dumps(gargs[t].value), clock,
                                          clock + gargs[t].ttl_seconds)
                  /\ written'[k].present
                  /\ written'[k].value = gargs[t].value
                  /\ written'[k].at = clock ]_vars

\* Both threads found k1 absent, both invoked their factory, and both sets
\* have run: the row is the one written at the time of the later set.
C33_Witness ==
    /\ \A t \in Threads :
          /\ gpc[t] = "return"
          /\ invoked[t] = 1
          /\ gargs[t].key = "k1"
    /\ rlock = NoLock
    /\ cache["k1"].present
    /\ cache["k1"].created_at = 1
    /\ clock = 1
    /\ cache_stats.total_sets = 2

\* What a read never changes in a row of the table cache.
Stored(row) ==
    IF row.present
    THEN [present |-> TRUE, value |-> row.value,
          created_at |-> row.created_at, expires_at |-> row.expires_at]
    ELSE [present |-> FALSE]

\* The step is a call of set, delete or clear, or a step of a running set.
WritesCache ==
    \/ cpc # "idle"
    \/ cpc' # "idle"
    \/ CacheCalled("delete")
    \/ CacheCalled("clear")

\* C34: get and get_stats never remove a row and never change a row's
\* value, created_at or expires_at; a hit changes only access_count (+1)
\* and last_accessed of the row read, a miss and get_stats change no row;
\* without a set, delete or clear every expired row stays in the table,
\* and get_stats reports the rows with expires_at <= now as
\* expired_entries.
C34_ReadsKeepRows ==
    [][ /\ \A key \in CacheKeyArgs :
              (CacheCalled("get") /\ cret'.key = key) =>
                 LET k   == GenerateKey(key)
                     hit == cache[k].present /\ cache[k].expires_at > clock
                 IN  /\ \A other \in StoredKeys \ {k} :
                           cache'[other] = cache[other]
                     /\ Stored(cache'[k]) = Stored(cache[k])
                     /\ hit => /\ cache'[k].access_count
                                     = cache[k].access_count + 1
                               /\ cache'[k].last_accessed = clock
                     /\ ~hit => cache'[k] = cache[k]
        /\ CacheCalled("get_stats") =>
              /\ cache' = cache
              /\ cret'.value.expired_entries =
                    Cardinality({k \in StoredKeys :
                                    /\ cache[k].present
                                    /\ cache[k].expires_at <= clock})
              /\ cret'.value.total_entries =
                    Cardinality({k \in StoredKeys : cache[k].present})
        /\ ~WritesCache =>
              \A k \in StoredKeys : Stored(cache'[k]) = Stored(cache[k]) ]_vars

\* k1 was read once while live, has expired since and has not been removed:
\* get_stats reports it as an expired entry.
C34_Witness ==
    /\ cret.op = "get_stats"
    /\ cret.value.expired_entries = 1
    /\ cache["k1"].present
    /\ cache["k1"].access_count = 1
    /\ cache["k1"].expires_at <= clock
    /\ cache["k1"].last_accessed < cache["k1"].expires_at

\* C35: when two threads call get_or_create_session concurrently for a date
\* that has no row yet, exactly one session row is created and both calls
\* return that row: no call returns an empty result.
C35_BothCallsReturnRow ==
    [][ \A t \in Threads :
           SessionReturns(t) =>
              /\ sret'.value # PyMapping({})
              /\ sessions'[sargs[t].date].present
              /\ sret'.value = PySession(sessions'[sargs[t].date])
              /\ \A d \in DateArgs :
                    sessions[d].present => sessions'[d].id = sessions[d].id
       ]_vars

\* The INITIAL_SETUP rows of a ledger, oldest first.
SetupRows(rows) ==
    SelectSeq(rows, LAMBDA r : r.adjustment_type = "INITIAL_SETUP")

\* C36: when several threads call initialize_capital concurrently on an
\* uninitialized store, at most one call returns true (a call returns true
\* only when no capital_state row exists, and the row it writes stays);
\* afterwards there is exactly one capital_state row and exactly one
\* INITIAL_SETUP ledger row, both carrying the amount of that call.
C36_InitializeOnce ==
    [][ /\ \A t \in Threads :
              (pc[t] = "init_commit" /\ Returns(t) /\ ret'.value = TRUE) =>
                 /\ ~cap.exists
                 /\ cap'.exists
                 /\ cap'.initial_capital = args[t].amount
                 /\ Len(SetupRows(ledger')) = 1
                 /\ SetupRows(ledger')[1].amount = args[t].amount
        /\ \A t \in Threads :
              (pc[t] \in {"init_select", "init_insert_state"}
                  /\ Returns(t)) => ret'.value = FALSE
        /\ cap.exists =>
              /\ cap'.exists
              /\ cap'.initial_capital = cap.initial_capital
        /\ Len(SetupRows(ledger')) = (IF cap'.exists THEN 1 ELSE 0)
        /\ cap'.exists =>
              SetupRows(ledger')[1].amount = cap'.initial_capital ]_vars

\* Two initialize_capital calls both found no row; one committed, and the
\* INSERT of the other has failed on the PRIMARY KEY.
C36_Witness ==
    /\ log = "initialize_error_unique"
    /\ ret.value = FALSE
    /\ cap.exists
    /\ cap.initial_capital = 1
    /\ Len(ledger) = 1
    /\ ledger[1].adjustment_type = "INITIAL_SETUP"
    /\ ledger[1].amount = 1

\* C37: the ledger contains at most one row of type INITIAL_SETUP, and when
\* the capital_state row exists it contains exactly one, which is the
\* oldest row: no adjust_capital call, with any adjustment_type argument,
\* adds another.
C37_OneInitialSetup ==
    /\ Len(SetupRows(ledger)) <= 1
    /\ cap.exists =>
          /\ Len(SetupRows(ledger)) = 1
          /\ ledger[1].adjustment_type = "INITIAL_SETUP"

\* items is what a history query with the given limit may return from the
\* table rows, of which the rows with the given ids match the filter: at
\* most limit rows, each a matching row of the table, a row appended later
\* before a row appended earlier, and no matching row left out that is
\* newer than a returned one or that the limit had room for.
IsNewestFirst(items, rows, ids, limit) ==
    /\ limit >= 0 => Len(items) <= limit
    /\ \A k \in 1..Len(items) :
          /\ items[k].id \in ids
          /\ items[k] = [id |-> items[k].id] @@ rows[items[k].id]
    /\ \A k, l \in 1..Len(items) : k < l => items[k].id > items[l].id
    /\ \A i \in ids :
          (\A k \in 1..Len(items) : items[k].id # i) =>
             /\ Len(items) = limit
             /\ \A k \in 1..Len(items) : items[k].id > i

C32_Reversible ==
    [][ /\ \A i \in Managers :
              tm'[i].token_cache # PyNone
                 /\ TokenStore(i, {tm'[i].token_cache.val}, {1, 2}) =>
                    /\ tret'.value = PyBool(TRUE)
                    /\ token_state'.access_token # tm'[i].token_cache.val
                    /\ token_state'.access_token =
                          Obfuscate(tm'[i].token_cache.val)
        /\ \A i \in Managers :
              TokenGet(i) /\ token_state.exists
                 /\ token_state.token_expiry > clock =>
                    tret'.value = tm["m1"].token_cache
      ]_vars

\* m2, built after m1 stored "Aéz", reads it back from the stored text
\* "OBF:==gepOcQ".
C32_Witness ==
    /\ tret = TokenReturn("m2", "get_token", PyStr(<<65, 233, 122>>))
    /\ tm["m1"].token_cache = PyStr(<<65, 233, 122>>)
    /\ token_state.exists
    /\ token_state.access_token =
          <<79, 66, 70, 58, 61, 61, 103, 101, 112, 79, 99, 81>>
    /\ token_state.token_expiry > clock


\* The store holds a usable token: a row with a non-empty access_token whose
\* expiry is in the future.
StoreHoldsToken(row, now) ==
    /\ row.exists
    /\ row.access_token # <<>>
    /\ row.token_expiry > now

\* C38: get_token returns a token only if the store currently holds a
\* non-empty access token whose expiry is in the future: on every instance
\* it returns None once the stored token has been cleared or has expired.
C38_TokenOnlyFromStore ==
    [][ \A i \in Managers :
           TokenGet(i) /\ tret'.value # PyNone =>
              StoreHoldsToken(token_state, clock)
      ]_vars

\* C39: update_last_validated changes only last_validated: the stored
\* access_token, token_expiry and last_authenticated are what they were, and
\* get_token returns the same token before and after.
C39_OnlyLastValidated ==
    [][ \A i \in Managers :
           TokenUpdateLastValidated(i) /\ token_state.exists =>
              /\ token_state'.access_token = token_state.access_token
              /\ token_state'.token_expiry = token_state.token_expiry
              /\ token_state'.last_authenticated =
                    token_state.last_authenticated
              /\ GetTokenValue(tm'[i], token_state', clock') =
                    GetTokenValue(tm[i], token_state, clock)
      ]_vars


\* ---------------------------------------------------------- service claims
\* C40: when the broker fetch fails, get_historical_data returns the data
\* that was last cached for the key, even if the entry's TTL has expired,
\* and an empty frame only if the key was never cached.
C40_StaleOnFailure ==
    [][ \A t \in SeqThreads :
           HistoricalFailed(t) =>
              LET last_set == written[GenerateKey(hargs.key)]
              IN  hret'.value = IF last_set.present
                                THEN DataFrame(last_set.value)
                                ELSE EmptyFrame
      ]_vars

=============================================================================
